---- MODULE Spec2Model ----
(***************************************************************************)
(* A model of the language-server client of cavenditti/dtree:             *)
(*   - the message framing of stree.py / lsptest2.py (send_request,        *)
(*     send_notification, read_message) on streams of characters;          *)
(*   - the request-id counter and the lifecycle driven by main() of both   *)
(*     programs (initialize, initialized, didOpen/documentSymbol per file, *)
(*     shutdown, exit, terminate, wait) against a server that may answer,  *)
(*     send other messages, close its stream or exit at any time;          *)
(*   - read_message on streams a server may write, well formed or not;     *)
(*   - kind_map and the parsing of the two shapes of a documentSymbol      *)
(*     result (parse_document_symbols, parse_symbol_information);          *)
(*   - build_filesystem_tree on a directory on disk, the attachment of     *)
(*     symbols to the tree it returns (attach_symbols_recursive) and its   *)
(*     rendering;                                                          *)
(*   - the tree lsptest2.py builds from a flat result, grouped by          *)
(*     containerName.                                                      *)
(***************************************************************************)
EXTENDS Integers, Sequences, FiniteSets, TLC

VARIABLES
    prog,         \* which program runs: "stree" (stree.py) or "lsptest2" (lsptest2.py)
    wire,         \* framing: characters written to a stream and not yet read
    framed,       \* framing: payloads of the frames on the wire, oldest first
    closed,       \* framing: the writer closed the stream
    lastIn,       \* framing: payload of the frame the latest read_message was given
    lastOut,      \* framing: outcome of the latest read_message
    pc,           \* position of main()
    request_id,   \* the module global _request_id
    use_workspace_symbol, \* the module global USE_WORKSPACE_SYMBOL of lsptest2.py
    conn,         \* number of main() runs started in this interpreter
    proc,         \* the analysis process: "none", "running", "exited", "reaped"
    eof,          \* the process's output stream has reached its end
    log,          \* what main() did on this connection, in order
    init_id,      \* main's init_id (0: not assigned)
    req_id,       \* req_id of collect_document_symbols_for_file / symbol_req_id
    shutdown_id,  \* main's shutdown_id
    built,        \* build_filesystem_tree has returned the tree
    todo,         \* the eligible files attach_symbols_recursive has yet to visit
    cur,          \* the file being queried (0: none)
    symbols,      \* per file: what its documentSymbol query returned
    rendered,     \* the tree was printed
    skips,        \* messages skipped by the wait loop in progress (saturating)
    shutdown_runs, \* how many times the shutdown sequence was entered
    raw,          \* decoding: the pieces a server wrote to the stream, in order
    doc_syms,     \* symbols: the result list of a documentSymbol response
    syms,         \* symbols: what collect_document_symbols_for_file returned for it
    symbol_kind,  \* symbols: the code kind_map was called with
    prefix,       \* symbols: what kind_map returned for it
    fs,           \* tree: the directory on disk
    fs_root,      \* tree: fs_root of main(), the merged tree
    walk,         \* tree: positions of the File nodes attach_symbols_recursive has yet to reach
    queried,      \* tree: per file queried, its position and the symbols returned for it
    stage         \* position of the function under study

frameVars == <<wire, framed, closed, lastIn, lastOut>>

pipeVars ==
    <<pc, request_id, use_workspace_symbol, conn, proc, eof, log, init_id, req_id,
      shutdown_id, built, todo, cur, symbols, rendered, skips, shutdown_runs>>

dataVars ==
    <<raw, doc_syms, syms, symbol_kind, prefix, fs, fs_root, walk, queried, stage>>

vars == <<prog, frameVars, pipeVars, dataVars>>

Programs == {"stree", "lsptest2"}

(***************************************************************************)
(* Characters and texts.  A text is a sequence of one-character strings.   *)
(***************************************************************************)
Digits == <<"0", "1", "2", "3", "4", "5", "6", "7", "8", "9">>

DigitSet == {Digits[i] : i \in 1..10}

DigitVal(c) == (CHOOSE i \in 1..10 : Digits[i] = c) - 1

Whitespace == {" ", "\t", "\r", "\n"}

UpperToLower ==
    ("A" :> "a") @@ ("B" :> "b") @@ ("C" :> "c") @@ ("D" :> "d") @@ ("E" :> "e") @@
    ("F" :> "f") @@ ("G" :> "g") @@ ("H" :> "h") @@ ("I" :> "i") @@ ("J" :> "j") @@
    ("K" :> "k") @@ ("L" :> "l") @@ ("M" :> "m") @@ ("N" :> "n") @@ ("O" :> "o") @@
    ("P" :> "p") @@ ("Q" :> "q") @@ ("R" :> "r") @@ ("S" :> "s") @@ ("T" :> "t") @@
    ("U" :> "u") @@ ("V" :> "v") @@ ("W" :> "w") @@ ("X" :> "x") @@ ("Y" :> "y") @@
    ("Z" :> "z")

\* str.lower() of a text
Lower(t) ==
    [i \in 1..Len(t) |-> IF t[i] \in DOMAIN UpperToLower THEN UpperToLower[t[i]] ELSE t[i]]

RECURSIVE StripLeft(_)
StripLeft(t) ==
    IF t # <<>> /\ Head(t) \in Whitespace THEN StripLeft(Tail(t)) ELSE t

RECURSIVE StripRight(_)
StripRight(t) ==
    IF t # <<>> /\ t[Len(t)] \in Whitespace THEN StripRight(SubSeq(t, 1, Len(t) - 1)) ELSE t

\* str.strip() of a text
Strip(t) == StripRight(StripLeft(t))

\* position of the first occurrence of character c in t, 0 when there is none
IndexOf(t, c) ==
    IF \E i \in 1..Len(t) : t[i] = c
    THEN CHOOSE i \in 1..Len(t) : t[i] = c /\ \A j \in 1..(i - 1) : t[j] # c
    ELSE 0

\* str(n) for n >= 0, as the f-string formats len(text)
RECURSIVE ToDecimal(_)
ToDecimal(n) ==
    IF n < 10 THEN <<Digits[n + 1]>>
    ELSE ToDecimal(n \div 10) \o <<Digits[(n % 10) + 1]>>

RECURSIVE DigitsValue(_)
DigitsValue(t) ==
    IF t = <<>> THEN 0
    ELSE 10 * DigitsValue(SubSeq(t, 1, Len(t) - 1)) + DigitVal(t[Len(t)])

\* int(value) of a stripped text: an optional sign and at least one digit, or ValueError
ParseInt(t) ==
    LET signed == t # <<>> /\ Head(t) \in {"+", "-"}
        ds == IF signed THEN Tail(t) ELSE t
    IN  IF ds # <<>> /\ \A i \in 1..Len(ds) : ds[i] \in DigitSet
        THEN [ok |-> TRUE,
              val |-> IF signed /\ Head(t) = "-" THEN 0 - DigitsValue(ds) ELSE DigitsValue(ds)]
        ELSE [ok |-> FALSE, val |-> 0]

(***************************************************************************)
(* JSON texts.  json.dumps / json.loads are library code: a message value  *)
(* is a record, JsonDumps writes its text character by character in        *)
(* json.dumps' default format, and JsonLoads is its inverse on the texts   *)
(* of JsonUniverse and fails (JSONDecodeError) on every other text.        *)
(***************************************************************************)
MethodNames ==
    {"initialize", "initialized", "shutdown", "exit", "textDocument/didOpen",
     "textDocument/documentSymbol", "workspace/symbol"}

MethodText(m) ==
    CASE m = "initialize" -> <<"i", "n", "i", "t", "i", "a", "l", "i", "z", "e">>
      [] m = "initialized" -> <<"i", "n", "i", "t", "i", "a", "l", "i", "z", "e", "d">>
      [] m = "shutdown" -> <<"s", "h", "u", "t", "d", "o", "w", "n">>
      [] m = "exit" -> <<"e", "x", "i", "t">>
      [] m = "textDocument/didOpen" ->
            <<"t", "e", "x", "t", "D", "o", "c", "u", "m", "e", "n", "t", "/",
              "d", "i", "d", "O", "p", "e", "n">>
      [] m = "textDocument/documentSymbol" ->
            <<"t", "e", "x", "t", "D", "o", "c", "u", "m", "e", "n", "t", "/",
              "d", "o", "c", "u", "m", "e", "n", "t", "S", "y", "m", "b", "o", "l">>
      [] m = "workspace/symbol" ->
            <<"w", "o", "r", "k", "s", "p", "a", "c", "e", "/", "s", "y", "m", "b", "o", "l">>

\* the params objects the programs send: {} and {"textDocument": {"uri": ...}}
ParamsText(p) ==
    CASE p = "empty" -> <<"{", "}">>
      [] p = "doc" ->
            <<"{", "\"", "t", "e", "x", "t", "D", "o", "c", "u", "m", "e", "n", "t", "\"",
              ":", " ", "{", "\"", "u", "r", "i", "\"", ":", " ", "\"", "f", "i", "l", "e",
              ":", "/", "/", "/", "a", ".", "p", "y", "\"", "}", "}">>

ResultText(r) ==
    CASE r = "null" -> <<"n", "u", "l", "l">>
      [] r = "list" -> <<"[", "]">>

\* the message values: a JSON-RPC object, the empty object {} and null
RpcValue(id, method, params, result) ==
    [top |-> "rpc", id |-> id, method |-> method, params |-> params, result |-> result]

EmptyObject == [top |-> "{}", id |-> 0, method |-> "", params |-> "absent", result |-> "absent"]

JsonNull == [top |-> "null", id |-> 0, method |-> "", params |-> "absent", result |-> "absent"]

MaxWireId == 10

\* calls and notifications, responses, {} and null
JsonUniverse ==
    {RpcValue(i, m, p, "absent") :
        i \in 0..MaxWireId, m \in MethodNames, p \in {"absent", "empty", "doc"}}
    \cup {RpcValue(i, "", "absent", r) : i \in 0..MaxWireId, r \in {"absent", "null", "list"}}
    \cup {EmptyObject, JsonNull}

\* json.dumps(body): keys in insertion order, separators ", " and ": "
JsonDumps(v) ==
    CASE v.top = "null" -> <<"n", "u", "l", "l">>
      [] v.top = "{}" -> <<"{", "}">>
      [] v.top = "rpc" ->
            <<"{", "\"", "j", "s", "o", "n", "r", "p", "c", "\"", ":", " ",
              "\"", "2", ".", "0", "\"">>
            \o (IF v.id = 0 THEN <<>>
                ELSE <<",", " ", "\"", "i", "d", "\"", ":", " ">> \o ToDecimal(v.id))
            \o (IF v.method = "" THEN <<>>
                ELSE <<",", " ", "\"", "m", "e", "t", "h", "o", "d", "\"", ":", " ", "\"">>
                     \o MethodText(v.method) \o <<"\"">>)
            \o (IF v.params = "absent" THEN <<>>
                ELSE <<",", " ", "\"", "p", "a", "r", "a", "m", "s", "\"", ":", " ">>
                     \o ParamsText(v.params))
            \o (IF v.result = "absent" THEN <<>>
                ELSE <<",", " ", "\"", "r", "e", "s", "u", "l", "t", "\"", ":", " ">>
                     \o ResultText(v.result))
            \o <<"}">>

\* json.loads(text): the value whose text it is, or JSONDecodeError
JsonLoads(t) ==
    LET vs == {v \in JsonUniverse : JsonDumps(v) = t}
    IN  IF vs # {} THEN [ok |-> TRUE, val |-> CHOOSE v \in vs : TRUE]
        ELSE [ok |-> FALSE, val |-> JsonNull]

(***************************************************************************)
(* Framing.                                                                *)
(***************************************************************************)
ContentLengthName ==
    <<"C", "o", "n", "t", "e", "n", "t", "-", "L", "e", "n", "g", "t", "h">>

ContentLengthKey ==
    <<"c", "o", "n", "t", "e", "n", "t", "-", "l", "e", "n", "g", "t", "h">>

CRLF == <<"\r", "\n">>

\* a length that counts the blank line after the header with the text
TextLenWithBlankLine(text) == Len(text) + Len(CRLF)

\* len(text) in f"Content-Length: {len(text)}"
TextLen(text) == Len(text)

\* message = f"Content-Length: {len(text)}\r\n\r\n{text}"
Frame(text) ==
    ContentLengthName \o <<":", " ">> \o ToDecimal(TextLen(text)) \o CRLF \o CRLF \o text

\* the body dict of send_request: id always, params when not None
RequestBody(id, method, params) == RpcValue(id, method, params, "absent")

\* the body dict of send_notification: no id
NotificationBody(method, params) == RpcValue(0, method, params, "absent")

\* process.stdout.readline(): up to and including the first "\n", or what is left
ReadLine(s) ==
    LET k == IndexOf(s, "\n")
        n == IF k = 0 THEN Len(s) ELSE k
    IN  [line |-> SubSeq(s, 1, n), rest |-> SubSeq(s, n + 1, Len(s))]

\* process.stdout.read(n): n characters, fewer at the end of the stream,
\* everything that is left when n is negative
StdoutRead(s, n) ==
    LET k == IF n < 0 \/ n > Len(s) THEN Len(s) ELSE n
    IN  [body |-> SubSeq(s, 1, k), rest |-> SubSeq(s, k + 1, Len(s))]

\* headers.get("content-length", 0) before any Content-Length line was read
Unset == [set |-> FALSE, text |-> <<>>]

\* the header loop of read_message; cl is headers["content-length"] so far
RECURSIVE ReadHeaders(_, _)
ReadHeaders(s, cl) ==
    LET rl == ReadLine(s)
        line == Strip(rl.line)
        colon == IndexOf(line, ":")
        key == Lower(Strip(SubSeq(line, 1, colon - 1)))
        value == Strip(SubSeq(line, colon + 1, Len(line)))
    IN  IF rl.line = <<>> THEN [kind |-> "eof", cl |-> cl, rest |-> rl.rest]
        ELSE IF line = <<>> THEN [kind |-> "ok", cl |-> cl, rest |-> rl.rest]
        ELSE IF colon = 0 THEN [kind |-> "error", cl |-> cl, rest |-> rl.rest]
        ELSE ReadHeaders(rl.rest,
                         IF key = ContentLengthKey THEN [set |-> TRUE, text |-> value] ELSE cl)

NoneOutcome(rest) == [kind |-> "none", val |-> JsonNull, rest |-> rest]

ErrorOutcome(rest) == [kind |-> "error", val |-> JsonNull, rest |-> rest]

\* json.loads(body) if body else None (stree.py); json.loads(body) (lsptest2.py)
DecodeBody(p, body, rest) ==
    IF p = "stree" /\ body = <<>> THEN NoneOutcome(rest)
    ELSE LET j == JsonLoads(body)
         IN  IF ~j.ok THEN ErrorOutcome(rest)
             ELSE IF j.val = JsonNull THEN NoneOutcome(rest)
             ELSE [kind |-> "msg", val |-> j.val, rest |-> rest]

\* read_message(process) of program p on the stream s (s is all that will ever
\* arrive): kind "msg" with the parsed value, "none" for a None return,
\* "error" for a raised ValueError / JSONDecodeError; rest is what stays unread
ReadMessage(p, s) ==
    LET h == ReadHeaders(s, Unset)
        n == IF h.cl.set THEN ParseInt(h.cl.text) ELSE [ok |-> TRUE, val |-> 0]
        rd == StdoutRead(h.rest, n.val)
    IN  IF h.kind = "eof" THEN NoneOutcome(h.rest)
        ELSE IF h.kind = "error" THEN ErrorOutcome(h.rest)
        ELSE IF ~n.ok THEN ErrorOutcome(h.rest)
        ELSE IF n.val = 0 THEN NoneOutcome(h.rest)
        ELSE DecodeBody(p, rd.body, rd.rest)

(***************************************************************************)
(* The state main() works on.                                              *)
(***************************************************************************)
MaxFiles == 2

MaxConns == 2

MaxSkips == 1

Files == 1..MaxFiles

\* no query made for a file yet.  Of a query made: req is its id, from the id
\* of the message taken for its response, by what ended the wait, result the
\* result of that message, proc the process when the query returned, and
\* shape what the query returned ("none" is the empty list)
NoSymbols ==
    [state |-> "none", req |-> 0, from |-> 0, by |-> "none", result |-> "absent",
     proc |-> "none", shape |-> "none"]

\* the locals of one run of main(), before it starts
RunIdle ==
    /\ proc = "none"
    /\ eof = FALSE
    /\ log = <<>>
    /\ init_id = 0
    /\ req_id = 0
    /\ shutdown_id = 0
    /\ built = FALSE
    /\ todo = <<>>
    /\ cur = 0
    /\ symbols = [f \in Files |-> NoSymbols]
    /\ rendered = FALSE
    /\ skips = 0
    /\ shutdown_runs = 0

\* a TreeNode that is absent (None)
NoneNode ==
    [name |-> <<>>, path |-> <<>>, node_type |-> "none", symbol_kind |-> <<>>,
     children |-> <<>>]

\* a path with nothing on disk
NoEntry == [name |-> <<>>, type |-> "missing", listable |-> FALSE, entries |-> <<>>]

\* nothing on disk, the arguments gitignore_spec and ignore_hidden of
\* build_filesystem_tree at their defaults, and no path that os.path.isfile
\* has been false for
NoDisk ==
    [root |-> NoEntry, spec |-> [key |-> FALSE, val |-> {}], ignore_hidden |-> FALSE,
     not_files |-> {}]

\* the functions under study before any of them is called
DataIdle ==
    /\ raw = <<>>
    /\ doc_syms = <<>>
    /\ syms = <<>>
    /\ symbol_kind = 0
    /\ prefix = <<>>
    /\ fs = NoDisk
    /\ fs_root = NoneNode
    /\ walk = <<>>
    /\ queried = <<>>
    /\ stage = "idle"

\* the interpreter before main() is called: _request_id = 0 (stree.py:213,
\* lsptest2.py:54), USE_WORKSPACE_SYMBOL = True (lsptest2.py:15)
PipeIdle ==
    /\ pc = "idle"
    /\ request_id = 0
    /\ use_workspace_symbol = TRUE
    /\ conn = 0
    /\ RunIdle

(***************************************************************************)
(* The framing on a stream: frames are written as send_request and         *)
(* send_notification write them, by either side, and read_message reads    *)
(* them back in order.                                                     *)
(***************************************************************************)
MaxFrames == 2

NoFrame == [given |-> "nothing", payload |-> <<>>]

NoOutcome == [kind |-> "nothing", val |-> JsonNull, rest |-> <<>>]

\* the values whose texts are framed: calls, notifications, server messages
FrameValues ==
    {RequestBody(1, "shutdown", "absent"),
     RequestBody(MaxWireId, "textDocument/documentSymbol", "doc"),
     NotificationBody("exit", "absent"),
     NotificationBody("initialized", "empty"),
     RpcValue(1, "", "absent", "list"),
     RpcValue(MaxWireId, "", "absent", "null"),
     EmptyObject}

\* the payloads: the texts of the values, and the empty payload
FramePayloads == {JsonDumps(v) : v \in FrameValues} \cup {<<>>}

InitFrame ==
    /\ prog \in Programs
    /\ PipeIdle
    /\ wire = <<>>
    /\ framed = <<>>
    /\ closed = FALSE
    /\ lastIn = NoFrame
    /\ lastOut = NoOutcome
    /\ DataIdle

\* process.stdin.write(message) for the frame of payload text
WriteFrame(text) ==
    /\ ~closed
    /\ Len(framed) < MaxFrames
    /\ wire' = wire \o Frame(text)
    /\ framed' = Append(framed, text)
    /\ UNCHANGED <<prog, closed, lastIn, lastOut, pipeVars, dataVars>>

\* the writes of send_request
FrameSendRequest ==
    \E v \in {w \in FrameValues : w.top = "rpc" /\ w.id # 0 /\ w.method # ""} :
        WriteFrame(JsonDumps(RequestBody(v.id, v.method, v.params)))

\* the writes of send_notification
FrameSendNotification ==
    \E v \in {w \in FrameValues : w.top = "rpc" /\ w.id = 0 /\ w.method # ""} :
        WriteFrame(JsonDumps(NotificationBody(v.method, v.params)))

\* a server writes one of its payloads, framed the same way
FrameServerSend ==
    \E text \in FramePayloads : WriteFrame(text)

\* the writer closes the stream
FrameClose ==
    /\ ~closed
    /\ closed' = TRUE
    /\ UNCHANGED <<prog, wire, framed, lastIn, lastOut, pipeVars, dataVars>>

\* read_message on the stream; it blocks while the stream is empty and open
FrameRead ==
    /\ framed # <<>> \/ closed
    /\ LET r == ReadMessage(prog, wire)
       IN  /\ lastOut' = [r EXCEPT !.rest = <<>>]
           /\ wire' = r.rest
    /\ lastIn' = IF framed = <<>> THEN [given |-> "eof", payload |-> <<>>]
                 ELSE [given |-> "frame", payload |-> Head(framed)]
    /\ framed' = IF framed = <<>> THEN framed ELSE Tail(framed)
    /\ UNCHANGED <<prog, closed, pipeVars, dataVars>>

NextFrame ==
    \/ FrameSendRequest
    \/ FrameSendNotification
    \/ FrameServerSend
    \/ FrameClose
    \/ FrameRead

SpecFrame == InitFrame /\ [][NextFrame]_vars

\* C1 (as stated): every frame built as send_request builds it, the one of the
\* empty payload included, is decoded by read_message into exactly its payload.
C1_RoundTripEveryPayload ==
    lastIn.given = "frame" =>
        /\ lastOut.kind = "msg"
        /\ JsonDumps(lastOut.val) = lastIn.payload

\* C1 (amended): every frame of a non-empty payload (the JSON text of a message
\* other than null) is decoded by read_message into the value of exactly that
\* payload, and the frame of the empty payload is decoded into None.
C1_RoundTripNonEmpty ==
    lastIn.given = "frame" =>
        IF lastIn.payload = <<>> THEN lastOut.kind = "none"
        ELSE /\ lastOut.kind = "msg"
             /\ JsonDumps(lastOut.val) = lastIn.payload

\* a frame of more than 99 characters was read back after another frame
C1_Witness ==
    /\ lastIn.given = "frame"
    /\ Len(lastIn.payload) > 99
    /\ lastOut.kind = "msg"
    /\ lastOut.val.id = MaxWireId
    /\ framed # <<>>

(***************************************************************************)
(* The server, as main() sees it through read_message.                     *)
(***************************************************************************)
\* the largest id a run can reach
MaxId == MaxConns * (MaxFiles + 6)

\* what a response's result can be: missing, null, an object, an empty list,
\* a list of SymbolInformation (flat), a list of DocumentSymbol (nested)
Results == {"absent", "null", "object", "empty", "flat", "nested"}

\* the messages a server sends: responses with a result, error responses,
\* its own requests (with an id) and notifications (without), and {}
ServerMsgs ==
    {[type |-> "result", id |-> i, result |-> r] : i \in 1..MaxId, r \in Results \ {"absent"}}
    \cup {[type |-> "error", id |-> i, result |-> "absent"] : i \in 1..MaxId}
    \cup {[type |-> "method", id |-> i, result |-> "absent"] : i \in 0..MaxId}
    \cup {[type |-> "empty", id |-> 0, result |-> "absent"]}

NoMsg == [type |-> "empty", id |-> 0, result |-> "absent"]

\* the outcomes of one read_message call: a message, None at the end of the
\* stream ("eof"), None for a frame without length or body ("none"), or a
\* raised ValueError / JSONDecodeError ("error")
ReadOutcomes ==
    {[kind |-> k, msg |-> NoMsg] : k \in {"eof", "none", "error"}}
    \cup {[kind |-> "msg", msg |-> m] : m \in ServerMsgs}

\* once the stream has ended every read returns None
Available(o) == eof => o.kind = "eof"

\* if not msg
NotMsg(o) == o.kind \in {"eof", "none"} \/ (o.kind = "msg" /\ o.msg.type = "empty")

\* what the log calls a read that gave no message
NoneLabel(o) == IF o.kind = "msg" THEN "empty" ELSE o.kind

\* a test that takes any message carrying an id for the response
HasId(o, id) == o.kind = "msg" /\ o.msg.id # 0

\* if "id" in msg and msg["id"] == id
Matches(o, id) == o.kind = "msg" /\ o.msg.id # 0 /\ o.msg.id = id

\* msg.get("result", [])
ResultOf(m) == IF m.type = "result" THEN m.result ELSE "absent"

\* a result taken for a list of symbols whenever it is not empty or None
ShapeWithoutListTest(m) ==
    IF ResultOf(m) \in {"absent", "null", "empty"} THEN "none"
    ELSE IF ResultOf(m) = "nested" THEN "nested"
    ELSE "flat"

\* the symbols collect_document_symbols_for_file returns for a matching message
SymbolShape(m) ==
    IF ResultOf(m) \in {"flat", "nested"} THEN ResultOf(m) ELSE "none"

(***************************************************************************)
(* Writing to the process.                                                 *)
(***************************************************************************)
Event(ev, what, id) == [ev |-> ev, what |-> what, id |-> id]

\* process.stdin.write / flush: BrokenPipeError once the process is gone
CanWrite == proc = "running"

WriteEvent(method, id) ==
    IF CanWrite THEN Event("write", method, id) ELSE Event("write_error", method, id)

\* _request_id += 1
NextId(n) == n + 1

\* send_request(process, method, params): the id is taken before the write
SendRequest(method) ==
    /\ request_id' = NextId(request_id)
    /\ log' = Append(log, WriteEvent(method, request_id'))

\* send_notification(process, method, params)
SendNotification(method) ==
    /\ UNCHANGED request_id
    /\ log' = Append(log, WriteEvent(method, 0))

Bump(n) == IF n < MaxSkips THEN n + 1 ELSE n

(***************************************************************************)
(* main().                                                                 *)
(***************************************************************************)
Init ==
    /\ prog \in Programs
    /\ wire = <<>>
    /\ framed = <<>>
    /\ closed = FALSE
    /\ lastIn = NoFrame
    /\ lastOut = NoOutcome
    /\ PipeIdle
    /\ DataIdle

\* main() that starts the process without building the filesystem tree
MainWithoutBuild ==
    /\ pc \in {"idle", "returned", "raised"}
    /\ conn < MaxConns
    /\ conn' = conn + 1
    /\ pc' = "start"
    /\ proc' = "none"
    /\ eof' = FALSE
    /\ log' = <<>>
    /\ init_id' = 0
    /\ req_id' = 0
    /\ shutdown_id' = 0
    /\ built' = FALSE
    /\ todo' = <<>>
    /\ cur' = 0
    /\ symbols' = [f \in Files |-> NoSymbols]
    /\ rendered' = FALSE
    /\ skips' = 0
    /\ shutdown_runs' = 0
    /\ UNCHANGED <<prog, frameVars, dataVars, request_id, use_workspace_symbol>>

\* main() is called: the first time, or again in the same interpreter, where
\* the module globals keep their values
Main ==
    /\ pc \in {"idle", "returned", "raised"}
    /\ conn < MaxConns
    /\ conn' = conn + 1
    /\ pc' = IF prog = "stree" THEN "build" ELSE "start"
    /\ proc' = "none"
    /\ eof' = FALSE
    /\ log' = <<>>
    /\ init_id' = 0
    /\ req_id' = 0
    /\ shutdown_id' = 0
    /\ built' = FALSE
    /\ todo' = <<>>
    /\ cur' = 0
    /\ symbols' = [f \in Files |-> NoSymbols]
    /\ rendered' = FALSE
    /\ skips' = 0
    /\ shutdown_runs' = 0
    /\ UNCHANGED <<prog, frameVars, dataVars, request_id, use_workspace_symbol>>

\* stree.py 451-461: the filesystem tree, of which the model keeps the files
\* attach_symbols_recursive will query; no tree, no server
Build ==
    /\ pc = "build"
    /\ \/ /\ pc' = "returned"
          /\ UNCHANGED <<built, todo>>
       \/ \E n \in 0..MaxFiles :
            /\ todo' = [i \in 1..n |-> i]
            /\ built' = TRUE
            /\ pc' = "start"
    /\ UNCHANGED <<prog, frameVars, dataVars, request_id, use_workspace_symbol, conn, proc, eof,
                   log, init_id, req_id, shutdown_id, cur, symbols, rendered, skips,
                   shutdown_runs>>

\* lsp_proc = start_language_server()
Start ==
    /\ pc = "start"
    /\ proc' = "running"
    /\ log' = Append(log, Event("spawn", "", 0))
    /\ pc' = "init_send"
    /\ UNCHANGED <<prog, frameVars, dataVars, request_id, use_workspace_symbol, conn, eof, init_id,
                   req_id, shutdown_id, built, todo, cur, symbols, rendered, skips,
                   shutdown_runs>>

\* initialize is sent and its response is not waited for
InitSendNoWait ==
    /\ pc = "init_send"
    /\ SendRequest("initialize")
    /\ IF CanWrite THEN init_id' = request_id' /\ pc' = "initialized_send"
       ELSE UNCHANGED init_id /\ pc' = "raised"
    /\ skips' = 0
    /\ UNCHANGED <<prog, frameVars, dataVars, use_workspace_symbol, conn, proc, eof, req_id,
                   shutdown_id, built, todo, cur, symbols, rendered, shutdown_runs>>

\* init_id = send_request(lsp_proc, "initialize", init_params)
InitSend ==
    /\ pc = "init_send"
    /\ SendRequest("initialize")
    /\ IF CanWrite THEN init_id' = request_id' /\ pc' = "init_wait"
       ELSE UNCHANGED init_id /\ pc' = "raised"
    /\ skips' = 0
    /\ UNCHANGED <<prog, frameVars, dataVars, use_workspace_symbol, conn, proc, eof, req_id,
                   shutdown_id, built, todo, cur, symbols, rendered, shutdown_runs>>

\* one turn of the loop that waits for the initialize response
InitWait ==
    /\ pc = "init_wait"
    /\ \E o \in ReadOutcomes :
        /\ Available(o)
        /\ IF o.kind = "error"
           THEN /\ pc' = "raised"
                /\ log' = Append(log, Event("read", "error", 0))
                /\ UNCHANGED <<eof, skips>>
           ELSE IF NotMsg(o)
           THEN /\ pc' = IF prog = "stree" THEN "init_fail_terminate" ELSE "returned"
                /\ log' = Append(log, Event("read", NoneLabel(o), 0))
                /\ eof' = (o.kind = "eof")
                /\ UNCHANGED skips
           ELSE IF Matches(o, init_id)
           THEN /\ pc' = "initialized_send"
                /\ log' = Append(log, Event("read", "match", o.msg.id))
                /\ UNCHANGED <<eof, skips>>
           ELSE /\ skips' = Bump(skips)
                /\ UNCHANGED <<pc, log, eof>>
    /\ UNCHANGED <<prog, frameVars, dataVars, request_id, use_workspace_symbol, conn, proc, init_id,
                   req_id, shutdown_id, built, todo, cur, symbols, rendered, shutdown_runs>>

\* send_notification(lsp_proc, "initialized", {}) in stree.py;
\* send_request(lsp, "initialized", {}) in lsptest2.py
InitializedSend ==
    /\ pc = "initialized_send"
    /\ IF prog = "stree" THEN SendNotification("initialized") ELSE SendRequest("initialized")
    /\ pc' = IF ~CanWrite THEN "raised"
             ELSE IF prog = "stree" THEN "attach" ELSE "caps_check"
    /\ UNCHANGED <<prog, frameVars, dataVars, use_workspace_symbol, conn, proc, eof, init_id, req_id,
                   shutdown_id, built, todo, cur, symbols, rendered, skips, shutdown_runs>>

\* lsptest2.py 231-241: msg["result"]["capabilities"]["workspace"] raises when a
\* key is missing; without the provider USE_WORKSPACE_SYMBOL becomes False
CapsCheck ==
    /\ pc = "caps_check"
    /\ \/ /\ pc' = "raised"
          /\ UNCHANGED use_workspace_symbol
       \/ /\ pc' = "symbol_send"
          /\ UNCHANGED use_workspace_symbol
       \/ /\ pc' = "symbol_send"
          /\ use_workspace_symbol' = FALSE
    /\ UNCHANGED <<prog, frameVars, dataVars, request_id, conn, proc, eof, log, init_id, req_id,
                   shutdown_id, built, todo, cur, symbols, rendered, skips, shutdown_runs>>

\* attach_symbols_recursive: the next eligible file, or the end of the walk
AttachNext ==
    /\ pc = "attach"
    /\ IF todo = <<>>
       THEN /\ pc' = "render"
            /\ UNCHANGED <<todo, cur>>
       ELSE /\ cur' = Head(todo)
            /\ todo' = Tail(todo)
            /\ pc' = "didopen_send"
    /\ UNCHANGED <<prog, frameVars, dataVars, request_id, use_workspace_symbol, conn, proc, eof, log,
                   init_id, req_id, shutdown_id, built, symbols, rendered, skips,
                   shutdown_runs>>

\* did_open_file: send_notification(lsp_proc, "textDocument/didOpen", params)
DidOpenSend ==
    /\ pc = "didopen_send"
    /\ SendNotification("textDocument/didOpen")
    /\ pc' = IF CanWrite THEN "docsym_send" ELSE "raised"
    /\ UNCHANGED <<prog, frameVars, dataVars, use_workspace_symbol, conn, proc, eof, init_id, req_id,
                   shutdown_id, built, todo, cur, symbols, rendered, skips, shutdown_runs>>

\* req_id = send_request(lsp_proc, "textDocument/documentSymbol", params)
DocSymSend ==
    /\ pc = "docsym_send"
    /\ SendRequest("textDocument/documentSymbol")
    /\ IF CanWrite THEN req_id' = request_id' /\ pc' = "docsym_wait"
       ELSE UNCHANGED req_id /\ pc' = "raised"
    /\ skips' = 0
    /\ UNCHANGED <<prog, frameVars, dataVars, use_workspace_symbol, conn, proc, eof, init_id,
                   shutdown_id, built, todo, cur, symbols, rendered, shutdown_runs>>

\* one turn of the loop of collect_document_symbols_for_file, and, when it
\* returns, the attachment of what it returned to the file's node
DocSymWait ==
    /\ pc = "docsym_wait"
    /\ \E o \in ReadOutcomes :
        /\ Available(o)
        /\ IF o.kind = "error"
           THEN /\ pc' = "raised"
                /\ log' = Append(log, Event("read", "error", 0))
                /\ UNCHANGED <<eof, skips, symbols>>
           ELSE IF NotMsg(o)
           THEN /\ pc' = "attach"
                /\ log' = Append(log, Event("read", NoneLabel(o), 0))
                /\ eof' = (o.kind = "eof")
                /\ symbols' = [symbols EXCEPT ![cur] =
                        [state |-> "unanswered", req |-> req_id, from |-> 0,
                         by |-> NoneLabel(o), result |-> "absent", proc |-> proc,
                         shape |-> "none"]]
                /\ UNCHANGED skips
           ELSE IF Matches(o, req_id)
           THEN /\ pc' = "attach"
                /\ log' = Append(log, Event("read", "match", o.msg.id))
                /\ symbols' = [symbols EXCEPT ![cur] =
                        [state |-> "answered", req |-> req_id, from |-> o.msg.id,
                         by |-> o.msg.type, result |-> ResultOf(o.msg), proc |-> proc,
                         shape |-> SymbolShape(o.msg)]]
                /\ UNCHANGED <<eof, skips>>
           ELSE /\ skips' = Bump(skips)
                /\ UNCHANGED <<pc, log, eof, symbols>>
    /\ UNCHANGED <<prog, frameVars, dataVars, request_id, use_workspace_symbol, conn, proc, init_id,
                   req_id, shutdown_id, built, todo, cur, rendered, shutdown_runs>>

\* lsptest2.py 249-259: the one symbol query, workspace/symbol or documentSymbol
SymbolSend ==
    /\ pc = "symbol_send"
    /\ SendRequest(IF use_workspace_symbol THEN "workspace/symbol"
                   ELSE "textDocument/documentSymbol")
    /\ IF CanWrite THEN req_id' = request_id' /\ pc' = "symbol_wait"
       ELSE UNCHANGED req_id /\ pc' = "raised"
    /\ skips' = 0
    /\ cur' = 1
    /\ UNCHANGED <<prog, frameVars, dataVars, use_workspace_symbol, conn, proc, eof, init_id,
                   shutdown_id, built, todo, symbols, rendered, shutdown_runs>>

\* lsptest2.py 264-307: one turn of the loop that waits for the symbols; after
\* it, msg["result"] raises KeyError without a result, an empty or null result
\* ends main(), an object raises in the tree building
SymbolWait ==
    /\ pc = "symbol_wait"
    /\ \E o \in ReadOutcomes :
        /\ Available(o)
        /\ IF o.kind = "error"
           THEN /\ pc' = "raised"
                /\ log' = Append(log, Event("read", "error", 0))
                /\ UNCHANGED <<eof, skips, symbols>>
           ELSE IF NotMsg(o)
           THEN /\ pc' = "returned"
                /\ log' = Append(log, Event("read", NoneLabel(o), 0))
                /\ eof' = (o.kind = "eof")
                /\ symbols' = [symbols EXCEPT ![cur] =
                        [state |-> "unanswered", req |-> req_id, from |-> 0,
                         by |-> NoneLabel(o), result |-> "absent", proc |-> proc,
                         shape |-> "none"]]
                /\ UNCHANGED skips
           ELSE IF Matches(o, req_id)
           THEN /\ pc' = IF o.msg.type # "result" \/ o.msg.result = "object" THEN "raised"
                         ELSE IF o.msg.result \in {"null", "empty"} THEN "returned"
                         ELSE "render"
                /\ log' = Append(log, Event("read", "match", o.msg.id))
                /\ symbols' = [symbols EXCEPT ![cur] =
                        [state |-> "answered", req |-> req_id, from |-> o.msg.id,
                         by |-> o.msg.type, result |-> ResultOf(o.msg), proc |-> proc,
                         shape |-> SymbolShape(o.msg)]]
                /\ UNCHANGED <<eof, skips>>
           ELSE /\ skips' = Bump(skips)
                /\ UNCHANGED <<pc, log, eof, symbols>>
    /\ UNCHANGED <<prog, frameVars, dataVars, request_id, use_workspace_symbol, conn, proc, init_id,
                   req_id, shutdown_id, built, todo, cur, rendered, shutdown_runs>>

\* print_merged_tree(fs_root) / print_tree(root_node)
Render ==
    /\ pc = "render"
    /\ rendered' = TRUE
    /\ log' = Append(log, Event("render", "", 0))
    /\ pc' = "shutdown_send"
    /\ shutdown_runs' = 1
    /\ UNCHANGED <<prog, frameVars, dataVars, request_id, use_workspace_symbol, conn, proc, eof,
                   init_id, req_id, shutdown_id, built, todo, cur, symbols, skips>>

\* shutdown_id = send_request(lsp_proc, "shutdown")
ShutdownSend ==
    /\ pc = "shutdown_send"
    /\ SendRequest("shutdown")
    /\ IF CanWrite THEN shutdown_id' = request_id' /\ pc' = "shutdown_wait"
       ELSE UNCHANGED shutdown_id /\ pc' = "raised"
    /\ skips' = 0
    /\ UNCHANGED <<prog, frameVars, dataVars, use_workspace_symbol, conn, proc, eof, init_id, req_id,
                   built, todo, cur, symbols, rendered, shutdown_runs>>

\* one turn of the loop that waits for the shutdown response
ShutdownWait ==
    /\ pc = "shutdown_wait"
    /\ \E o \in ReadOutcomes :
        /\ Available(o)
        /\ IF o.kind = "error"
           THEN /\ pc' = "raised"
                /\ log' = Append(log, Event("read", "error", 0))
                /\ UNCHANGED <<eof, skips>>
           ELSE IF NotMsg(o)
           THEN /\ pc' = "exit_send"
                /\ log' = Append(log, Event("read", NoneLabel(o), 0))
                /\ eof' = (o.kind = "eof")
                /\ UNCHANGED skips
           ELSE IF Matches(o, shutdown_id)
           THEN /\ pc' = "exit_send"
                /\ log' = Append(log, Event("read", "match", o.msg.id))
                /\ UNCHANGED <<eof, skips>>
           ELSE /\ skips' = Bump(skips)
                /\ UNCHANGED <<pc, log, eof>>
    /\ UNCHANGED <<prog, frameVars, dataVars, request_id, use_workspace_symbol, conn, proc, init_id,
                   req_id, shutdown_id, built, todo, cur, symbols, rendered, shutdown_runs>>

\* send_notification(lsp_proc, "exit") in stree.py;
\* send_request(lsp, "exit", None) in lsptest2.py
ExitSend ==
    /\ pc = "exit_send"
    /\ IF prog = "stree" THEN SendNotification("exit") ELSE SendRequest("exit")
    /\ pc' = IF CanWrite THEN "terminate" ELSE "raised"
    /\ UNCHANGED <<prog, frameVars, dataVars, use_workspace_symbol, conn, proc, eof, init_id, req_id,
                   shutdown_id, built, todo, cur, symbols, rendered, skips, shutdown_runs>>

\* lsp_proc.terminate(): the signal ends a running process; none is sent to
\* a process already waited for
Terminate ==
    /\ pc \in {"terminate", "init_fail_terminate"}
    /\ log' = Append(log, Event("terminate", proc, 0))
    /\ proc' = IF proc = "running" THEN "exited" ELSE proc
    /\ pc' = IF pc = "terminate" THEN "wait" ELSE "init_fail_wait"
    /\ UNCHANGED <<prog, frameVars, dataVars, request_id, use_workspace_symbol, conn, eof, init_id,
                   req_id, shutdown_id, built, todo, cur, symbols, rendered, skips,
                   shutdown_runs>>

\* lsp_proc.wait(), then main() returns
Wait ==
    /\ pc \in {"wait", "init_fail_wait"}
    /\ proc \in {"exited", "reaped"}
    /\ log' = Append(log, Event("wait", proc, 0))
    /\ proc' = "reaped"
    /\ pc' = "returned"
    /\ UNCHANGED <<prog, frameVars, dataVars, request_id, use_workspace_symbol, conn, eof, init_id,
                   req_id, shutdown_id, built, todo, cur, symbols, rendered, skips,
                   shutdown_runs>>

\* the analysis process ends by itself (it crashes, or exits after "exit")
ServerExit ==
    /\ proc = "running"
    /\ pc \notin {"idle", "returned", "raised"}
    /\ proc' = "exited"
    /\ UNCHANGED <<prog, frameVars, dataVars, pc, request_id, use_workspace_symbol, conn, eof, log,
                   init_id, req_id, shutdown_id, built, todo, cur, symbols, rendered,
                   skips, shutdown_runs>>

\* the shutdown sequence (stree.py 500-511, lsptest2.py 312-326) entered a
\* second time on the same connection, after it has completed once
ShutdownAgain ==
    /\ pc = "returned"
    /\ shutdown_runs = 1
    /\ proc = "reaped"
    /\ pc' = "shutdown_send"
    /\ shutdown_runs' = 2
    /\ UNCHANGED <<prog, frameVars, dataVars, request_id, use_workspace_symbol, conn, proc, eof, log,
                   init_id, req_id, shutdown_id, built, todo, cur, symbols, rendered, skips>>

Next ==
    \/ Main
    \/ Build
    \/ Start
    \/ InitSend
    \/ InitWait
    \/ InitializedSend
    \/ CapsCheck
    \/ AttachNext
    \/ DidOpenSend
    \/ DocSymSend
    \/ DocSymWait
    \/ SymbolSend
    \/ SymbolWait
    \/ Render
    \/ ShutdownSend
    \/ ShutdownWait
    \/ ExitSend
    \/ Terminate
    \/ Wait
    \/ ServerExit

Spec == Init /\ [][Next]_vars

\* the same, where a step is taken as long as one can be: main() runs on, and
\* a read in a wait loop returns after finitely many other messages
SpecLive == Spec /\ WF_vars(Next)

\* the same, with a caller that runs the shutdown sequence twice
SpecTwice == Init /\ [][Next \/ ShutdownAgain]_vars

(***************************************************************************)
(* The log of a connection.                                                *)
(***************************************************************************)
\* the methods the protocol makes calls, and those it makes notifications
CallMethods ==
    {"initialize", "textDocument/documentSymbol", "workspace/symbol", "shutdown"}

SymbolMethods == {"textDocument/documentSymbol", "workspace/symbol"}

Written(i) == log[i].ev = "write"

IsCall(i) == Written(i) /\ log[i].what \in CallMethods

\* the call written before position j, 0 when there is none
PrevCall(j) ==
    IF \E i \in 1..(j - 1) : IsCall(i)
    THEN CHOOSE i \in 1..(j - 1) : IsCall(i) /\ \A k \in (i + 1)..(j - 1) : ~IsCall(k)
    ELSE 0

\* the symbol queries written, in order
SymbolCalls == SelectSeq(log, LAMBDA e : e.ev = "write" /\ e.what \in SymbolMethods)

\* C2: from one call to the next the id grows by exactly 1, whatever
\* notifications (initialized, didOpen, exit) were sent in between.
C2_CallIdsStepByOne ==
    \A j \in DOMAIN log :
        (IsCall(j) /\ PrevCall(j) # 0) => log[j].id = log[PrevCall(j)].id + 1

\* C3: on every connection the first call carries id 1 and no two calls
\* carry the same id.
C3_FirstIdOneNoReuse ==
    /\ \A j \in DOMAIN log : (IsCall(j) /\ PrevCall(j) = 0) => log[j].id = 1
    /\ \A i, j \in DOMAIN log : (IsCall(i) /\ IsCall(j) /\ i # j) => log[i].id # log[j].id

\* C4: what is attached to a file comes from the message whose id is the id of
\* that file's own documentSymbol call (the f-th symbol query of the
\* connection); a wait that ended without such a message attaches no symbol.
C4_SymbolsFromOwnResponse ==
    \A f \in Files :
        symbols[f].state # "none" =>
            /\ Len(SymbolCalls) >= f
            /\ SymbolCalls[f].id = symbols[f].req
            /\ symbols[f].state = "answered" => symbols[f].from = symbols[f].req
            /\ symbols[f].state = "unanswered" => symbols[f].shape = "none"

\* the second file got nested symbols after the wait skipped another message
C4_Witness ==
    /\ prog = "stree"
    /\ pc = "attach"
    /\ cur = 2
    /\ symbols[2].state = "answered"
    /\ symbols[2].shape = "nested"
    /\ skips > 0

\* C5: a call is written only after the matching response to the call before
\* it has been read.
C5_OneCallInFlight ==
    \A j \in DOMAIN log :
        (IsCall(j) /\ PrevCall(j) # 0) =>
            \E k \in (PrevCall(j) + 1)..(j - 1) :
                log[k] = Event("read", "match", log[PrevCall(j)].id)

\* the message written or attempted at position j
Sent(j, methods) == log[j].ev \in {"write", "write_error"} /\ log[j].what \in methods

\* C6: initialized, didOpen and every symbol query are written only after a
\* message with the id of the initialize call was read; initialized is
\* written at most once, and exactly once before any didOpen or symbol query.
C6_StartupOrder ==
    /\ \A j \in DOMAIN log :
        Sent(j, {"initialized", "textDocument/didOpen"} \cup SymbolMethods) =>
            \E i, k \in 1..(j - 1) :
                /\ i < k
                /\ log[i].ev = "write" /\ log[i].what = "initialize"
                /\ log[k] = Event("read", "match", log[i].id)
    /\ Cardinality({j \in DOMAIN log : Sent(j, {"initialized"})}) <= 1
    /\ \A j \in DOMAIN log :
        Sent(j, {"textDocument/didOpen"} \cup SymbolMethods) =>
            \E i \in 1..(j - 1) : Written(i) /\ log[i].what = "initialized"
    /\ pc \in {"attach", "caps_check", "symbol_send", "didopen_send", "docsym_send",
               "docsym_wait", "symbol_wait", "render"} =>
            \E i \in DOMAIN log : Written(i) /\ log[i].what = "initialized"

\* on a second connection a symbol query was written after the initialize
\* wait had skipped a message
C6_Witness ==
    /\ conn = 2
    /\ pc \in {"docsym_wait", "symbol_wait"}
    /\ init_id > 1
    /\ \E i \in DOMAIN log : log[i] = Event("read", "match", init_id)

\* C7: exit is written only after the shutdown call was written and then its
\* matching response was read or the stream ended; terminate and wait follow.
C7_ShutdownOrder ==
    \A j \in DOMAIN log :
        Sent(j, {"exit"}) =>
            \E i, k \in 1..(j - 1) :
                /\ i < k
                /\ log[i].ev = "write" /\ log[i].what = "shutdown"
                /\ log[k] \in {Event("read", "match", log[i].id), Event("read", "eof", 0)}

\* C8: once the shutdown sequence has started no error reaches the caller,
\* and main() returns only with the process terminated and waited for.
C8_ShutdownCompletes ==
    shutdown_runs >= 1 =>
        /\ pc # "raised"
        /\ pc = "returned" => proc = "reaped"

StartupFailed ==
    \E k \in DOMAIN log :
        /\ log[k] = Event("read", "eof", 0)
        /\ \A i \in 1..(k - 1) : log[i].ev # "read"

\* C10: after a startup failure the process is terminated and waited for when
\* main() returns, nothing more is written, and no tree is rendered.
C10_StartupFailure ==
    StartupFailed =>
        /\ pc = "returned" => proc = "reaped"
        /\ \A j \in DOMAIN log :
            log[j].ev \in {"write", "write_error"} => log[j].what = "initialize"
        /\ ~rendered

\* the analysis process was spawned on this connection
Spawned == \E i \in DOMAIN log : log[i].ev = "spawn"

\* C11: in every run of stree.py in which the process was spawned, main()
\* ends, normally or with an error, only with the process terminated and
\* waited for.
C11_TeardownOnEveryEnd ==
    (prog = "stree" /\ pc \in {"returned", "raised"} /\ Spawned) => proc = "reaped"

\* what a query returns for a matching response whose result is an empty list
ZeroSymbols == SymbolShape([type |-> "result", id |-> 1, result |-> "empty"])

\* the query of file f ended at the end of the stream before its response
EndedByStreamEnd(f) == symbols[f].state = "unanswered" /\ symbols[f].by = "eof"

\* the query of file f was answered by a message with neither result nor error
AnsweredWithoutResult(f) == symbols[f].state = "answered" /\ symbols[f].by = "method"

\* the query of file f was answered by an error response
AnsweredByError(f) == symbols[f].state = "answered" /\ symbols[f].by = "error"

\* C12: in stree.py a query that ended at the end of the stream, or whose
\* response has neither result nor error, gives its caller an outcome other
\* than the one of a successful response with zero symbols.
C12_ProtocolErrorDistinct ==
    \A f \in Files :
        (prog = "stree" /\ (EndedByStreamEnd(f) \/ AnsweredWithoutResult(f))) =>
            symbols[f].shape # ZeroSymbols

\* C13: in stree.py a file whose query failed (error response, response
\* without result, stream end) has zero symbol children, and after a query
\* that failed at the end of the stream of a process that is gone the walk
\* does not raise at a write before the tree is rendered.
C13_FailedQueryKeepsWalking ==
    \A f \in Files :
        prog = "stree" =>
            /\ (EndedByStreamEnd(f) \/ AnsweredWithoutResult(f) \/ AnsweredByError(f)) =>
                    symbols[f].shape = "none"
            /\ (EndedByStreamEnd(f) /\ symbols[f].proc = "exited") =>
                    ~(pc = "raised" /\ ~rendered /\ log[Len(log)].ev = "write_error")

(***************************************************************************)
(* read_message on what a server may write: header lines, well formed or   *)
(* not, blank lines and bodies, with the stream ending anywhere.           *)
(***************************************************************************)
MaxPieces == 4

\* the body of a response: {"jsonrpc": "2.0", "id": 1, "result": []}
ResponseText == JsonDumps(RpcValue(1, "", "absent", "list"))

Pieces ==
    {"length", "bad_length", "other", "no_colon", "blank", "body", "half_body", "cut_line"}

\* the characters of a piece
PieceText(p) ==
    CASE p = "length" ->
            ContentLengthName \o <<":", " ">> \o ToDecimal(Len(ResponseText)) \o CRLF
      [] p = "bad_length" -> ContentLengthName \o <<":", " ", "x">> \o CRLF
      [] p = "other" -> <<"A", ":", " ", "b">> \o CRLF
      [] p = "no_colon" -> <<"A", "b">> \o CRLF
      [] p = "blank" -> CRLF
      [] p = "body" -> ResponseText
      [] p = "half_body" -> SubSeq(ResponseText, 1, Len(ResponseText) \div 2)
      [] p = "cut_line" ->
            ContentLengthName \o <<":", " ">> \o ToDecimal(Len(ResponseText))

\* the server writes a piece to its output
RawWrite ==
    /\ ~closed
    /\ Len(raw) < MaxPieces
    /\ \E p \in Pieces :
        /\ raw' = Append(raw, p)
        /\ wire' = wire \o PieceText(p)
    /\ UNCHANGED <<prog, framed, closed, lastIn, lastOut, pipeVars, doc_syms, syms,
                   symbol_kind, prefix, fs, fs_root, walk, queried, stage>>

\* the server's output ends
RawClose ==
    /\ ~closed
    /\ closed' = TRUE
    /\ UNCHANGED <<prog, wire, framed, lastIn, lastOut, pipeVars, dataVars>>

\* read_message(process), called once on the ended stream
RawRead ==
    /\ closed
    /\ lastOut = NoOutcome
    /\ LET r == ReadMessage(prog, wire)
       IN  /\ lastOut' = [r EXCEPT !.rest = <<>>]
           /\ wire' = r.rest
    /\ UNCHANGED <<prog, framed, closed, lastIn, pipeVars, dataVars>>

NextDecode ==
    \/ RawWrite
    \/ RawClose
    \/ RawRead

SpecDecode == InitFrame /\ [][NextDecode]_vars

\* header lines with a colon and an end of line
HeaderLines == {"length", "bad_length", "other"}

\* the first blank line is piece i, after header lines only
BlankAt(i) == raw[i] = "blank" /\ \A j \in 1..(i - 1) : raw[j] \in HeaderLines

\* the Content-Length line in force at the blank line i is piece j
LengthAt(i, j) ==
    /\ j < i
    /\ raw[j] \in {"length", "bad_length"}
    /\ \A k \in (j + 1)..(i - 1) : raw[k] = "other"

WasRead == lastOut.kind # "nothing"

NoColonCase ==
    \E i \in DOMAIN raw : raw[i] = "no_colon" /\ \A j \in 1..(i - 1) : raw[j] \in HeaderLines

MissingLengthCase ==
    \E i \in DOMAIN raw : BlankAt(i) /\ \A j \in 1..(i - 1) : raw[j] = "other"

NonNumericCase ==
    \E i, j \in DOMAIN raw : BlankAt(i) /\ LengthAt(i, j) /\ raw[j] = "bad_length"

\* C14: read_message raises an error when a header line has no colon, when
\* the headers have no Content-Length, and when its value is not a number.
C14_FramingErrorSignalled ==
    (WasRead /\ (NoColonCase \/ MissingLengthCase \/ NonNumericCase)) =>
        lastOut.kind = "error"

\* the stream ends after header lines, before the blank line
MidHeaderEnd ==
    /\ raw # <<>>
    /\ \A j \in 1..(Len(raw) - 1) : raw[j] \in HeaderLines
    /\ raw[Len(raw)] \in HeaderLines \cup {"cut_line"}

\* the stream ends before the body announced by Content-Length is complete
MidBodyEnd ==
    \E i, j \in DOMAIN raw :
        /\ BlankAt(i) /\ LengthAt(i, j) /\ raw[j] = "length"
        /\ \/ i = Len(raw)
           \/ i + 1 = Len(raw) /\ raw[i + 1] = "half_body"

\* C15: read_message returns None for the end of the stream at a message
\* boundary, and raises an error when the stream ends among the header lines
\* or inside the body.
C15_StreamEndInsideMessage ==
    WasRead =>
        /\ raw = <<>> => lastOut.kind = "none"
        /\ (MidHeaderEnd \/ MidBodyEnd) => lastOut.kind = "error"

(***************************************************************************)
(* Symbols: the kind table and the two shapes of a documentSymbol result.  *)
(* Names, details and tags are texts; an optional key of an item is a      *)
(* record whose field key tells whether the item has it.                   *)
(***************************************************************************)
SYMBOL_KIND_MAP ==
    (1 :> <<"f", ":">>) @@
    (2 :> <<"d", ":">>) @@
    (3 :> <<"d", ":">>) @@
    (4 :> <<"d", ":">>) @@
    (5 :> <<"c", "l", ":">>) @@
    (6 :> <<"f", "n", ":">>) @@
    (7 :> <<"v", "a", "r", ":">>) @@
    (8 :> <<"v", "a", "r", ":">>) @@
    (9 :> <<"f", "n", ":">>) @@
    (10 :> <<"e", "n", "u", "m", ":">>) @@
    (11 :> <<"i", "n", "t", ":">>) @@
    (12 :> <<"f", "n", ":">>) @@
    (13 :> <<"v", "a", "r", ":">>) @@
    (14 :> <<"v", "a", "r", ":">>) @@
    (15 :> <<"s", "t", "r", ":">>) @@
    (16 :> <<"n", "u", "m", ":">>) @@
    (17 :> <<"b", "o", "o", "l", ":">>) @@
    (18 :> <<"a", "r", "r", ":">>) @@
    (19 :> <<"o", "b", "j", ":">>) @@
    (20 :> <<"k", "e", "y", ":">>) @@
    (21 :> <<"n", "u", "l", "l", ":">>) @@
    (22 :> <<"m", "e", "m", ":">>) @@
    (23 :> <<"s", "t", "r", ":">>) @@
    (24 :> <<"e", "v", "e", "n", "t", ":">>) @@
    (25 :> <<"o", "p", "e", "r", ":">>) @@
    (26 :> <<"t", "y", "p", ":">>)

\* the tag of the codes the table does not have
UnknownTag == <<"?", "?", ":">>

FnTag == <<"f", "n", ":">>

\* a lookup without a default
KindMapNoDefault(code) ==
    IF code \in DOMAIN SYMBOL_KIND_MAP THEN SYMBOL_KIND_MAP[code] ELSE <<>>

\* SYMBOL_KIND_MAP.get(symbol_kind, "??:")
kind_map(code) ==
    IF code \in DOMAIN SYMBOL_KIND_MAP THEN SYMBOL_KIND_MAP[code] ELSE UnknownTag

\* a test every tag passes
StartsWithAnything(t, p) == TRUE

\* t.startswith(p)
StartsWith(t, p) == Len(t) >= Len(p) /\ SubSeq(t, 1, Len(p)) = p

\* item.get(key, default) for an optional key
Get(field, default) == IF field.key THEN field.val ELSE default

SymbolNode(name, kind) == [name |-> name, kind |-> kind, children |-> <<>>]

\* from_doc_symbol(ds) of parse_document_symbols
RECURSIVE from_doc_symbol(_)
from_doc_symbol(ds) ==
    LET k == kind_map(ds.kind)
        detail == Get(ds.detail, <<>>)
        nm == IF StartsWith(k, FnTag) /\ detail # <<>>
              THEN ds.name \o <<" ">> \o detail
              ELSE ds.name
        cs == Get(ds.children, <<>>)
    IN  [SymbolNode(nm, k) EXCEPT
            !.children = [i \in 1..Len(cs) |-> from_doc_symbol(cs[i])]]

\* parse_document_symbols(doc_syms)
parse_document_symbols(list) ==
    [i \in 1..Len(list) |-> from_doc_symbol(list[i])]

\* parse_symbol_information reading the flat items as nested ones
ParseFlatAsNested(list) ==
    [i \in 1..Len(list) |-> from_doc_symbol(list[i])]

\* parse_symbol_information(sym_info)
parse_symbol_information(list) ==
    [i \in 1..Len(list) |-> SymbolNode(list[i].name, kind_map(list[i].kind))]

\* the branch collect_document_symbols_for_file takes for a result list
ShapeOf(list) ==
    IF list = <<>> THEN "empty"
    ELSE IF list[1].children.key THEN "nested"
    ELSE "flat"

\* what collect_document_symbols_for_file returns for a result list
SymbolsOf(list) ==
    CASE ShapeOf(list) = "empty" -> <<>>
      [] ShapeOf(list) = "nested" -> parse_document_symbols(list)
      [] ShapeOf(list) = "flat" -> parse_symbol_information(list)

(***************************************************************************)
(* The symbol functions on result lists a server may send: lists of items  *)
(* nested to a bounded depth, assembled one item at a time.                *)
(***************************************************************************)
MaxItems == 3

MaxDepth == 2

Present(v) == [key |-> TRUE, val |-> v]

Absent == [key |-> FALSE, val |-> <<>>]

\* the codes items carry: a class and the three function-like kinds
ItemKinds == {5, 6, 9, 12}

\* the details items carry: none, the empty string, a signature
ItemDetails == {Absent, Present(<<>>), Present(<<"(", "x", ")">>)}

\* the codes kind_map is called with
KindCodes == (0 - 2)..28 \cup {999}

\* the name of the n-th item of a result
NameOf(n) == <<"s">> \o ToDecimal(n)

\* an item of a result list, with or without the key "children"
Item(n, kind, detail, nested) ==
    [name |-> NameOf(n), kind |-> kind, detail |-> detail,
     children |-> IF nested THEN Present(<<>>) ELSE Absent]

RECURSIVE CountItems(_)
CountItems(list) ==
    IF list = <<>> THEN 0
    ELSE 1 + CountItems(Get(Head(list).children, <<>>)) + CountItems(Tail(list))

\* the last item at depth d of the list can take a child (d = 0: the list itself)
RECURSIVE CanAddAt(_, _)
CanAddAt(list, d) ==
    \/ d = 0
    \/ /\ list # <<>>
       /\ list[Len(list)].children.key
       /\ CanAddAt(list[Len(list)].children.val, d - 1)

\* the list with the item appended at depth d, below the last items
RECURSIVE AddAt(_, _, _)
AddAt(list, d, item) ==
    IF d = 0 THEN Append(list, item)
    ELSE [list EXCEPT ![Len(list)].children.val = AddAt(@, d - 1, item)]

\* the functions under study on an interpreter that runs nothing else
InitData ==
    /\ prog = "stree"
    /\ wire = <<>>
    /\ framed = <<>>
    /\ closed = FALSE
    /\ lastIn = NoFrame
    /\ lastOut = NoOutcome
    /\ PipeIdle
    /\ DataIdle

\* the server puts one more item into the result of its response
ItemAdd ==
    /\ stage \in {"idle", "items"}
    /\ CountItems(doc_syms) < MaxItems
    /\ \E d \in 0..MaxDepth, k \in ItemKinds, dt \in ItemDetails, nested \in BOOLEAN :
        /\ CanAddAt(doc_syms, d)
        /\ doc_syms' = AddAt(doc_syms, d, Item(CountItems(doc_syms) + 1, k, dt, nested))
    /\ stage' = "items"
    /\ UNCHANGED <<prog, frameVars, pipeVars, raw, syms, symbol_kind, prefix, fs, fs_root,
                   walk, queried>>

\* stree.py 365-372: the result list of the matching response is parsed
CollectSymbols ==
    /\ stage \in {"idle", "items"}
    /\ syms' = SymbolsOf(doc_syms)
    /\ stage' = ShapeOf(doc_syms)
    /\ UNCHANGED <<prog, frameVars, pipeVars, raw, doc_syms, symbol_kind, prefix, fs,
                   fs_root, walk, queried>>

\* kind_map(symbol_kind)
KindMapCall ==
    /\ stage = "idle"
    /\ \E code \in KindCodes :
        /\ symbol_kind' = code
        /\ prefix' = kind_map(code)
    /\ stage' = "mapped"
    /\ UNCHANGED <<prog, frameVars, pipeVars, raw, doc_syms, syms, fs, fs_root, walk,
                   queried>>

NextSymbols ==
    \/ ItemAdd
    \/ CollectSymbols
    \/ KindMapCall

SpecSymbols == InitData /\ [][NextSymbols]_vars

\* the codes of the function-like kinds
FunctionLike == {6, 9, 12}

\* the name the node of an item is to carry
ExpectedName(item) ==
    IF item.kind \in FunctionLike /\ item.detail.key /\ item.detail.val # <<>>
    THEN item.name \o <<" ">> \o item.detail.val
    ELSE item.name

\* nodes follow items one to one, in order, at every depth
RECURSIVE Conforms(_, _)
Conforms(list, nodes) ==
    /\ Len(nodes) = Len(list)
    /\ \A i \in 1..Len(list) :
        /\ nodes[i].name = ExpectedName(list[i])
        /\ Conforms(Get(list[i].children, <<>>), nodes[i].children)

\* C16: for a nested result, at every depth the node of an item carries
\* '<name> <detail>' exactly when the item's kind is 6, 9 or 12 and its detail
\* is a non-empty string, the unchanged name otherwise, and the nodes have
\* the nesting and the order of the items.
C16_NestedNormalization ==
    stage = "nested" => Conforms(doc_syms, syms)

\* three levels were parsed: a class with a detail, below it a function
\* without one, below that a function with a signature
C16_Witness ==
    /\ stage = "nested"
    /\ Len(syms) = 1
    /\ doc_syms[1].kind = 5 /\ doc_syms[1].detail.val # <<>>
    /\ syms[1].name = <<"s", "1">>
    /\ Len(syms[1].children) = 1
    /\ syms[1].children[1].name = <<"s", "2">>
    /\ syms[1].children[1].kind = FnTag
    /\ Len(syms[1].children[1].children) = 1
    /\ syms[1].children[1].children[1].name = <<"s", "3", " ", "(", "x", ")">>

\* the tag the table gives a code
TableTag(code) == IF code \in 1..26 THEN SYMBOL_KIND_MAP[code] ELSE UnknownTag

\* C17: for a flat result the output has one node per item, in order, with
\* the item's name unchanged, the tag of its kind and no children; a result
\* is taken for flat exactly when its first item has no key "children".
C17_FlatNormalization ==
    /\ stage = "flat" =>
        /\ Len(syms) = Len(doc_syms)
        /\ \A i \in 1..Len(doc_syms) :
            syms[i] = [name |-> doc_syms[i].name, kind |-> TableTag(doc_syms[i].kind),
                       children |-> <<>>]
    /\ stage \in {"flat", "nested"} => (stage = "flat" <=> ~doc_syms[1].children.key)

\* a flat result whose second item is a function with a signature and a child
C17_Witness ==
    /\ stage = "flat"
    /\ Len(doc_syms) = 2
    /\ doc_syms[2].kind = 6
    /\ doc_syms[2].detail.val # <<>>
    /\ doc_syms[2].children.val # <<>>
    /\ syms[2] = SymbolNode(<<"s", "2">>, FnTag)

VariableTag == <<"v", "a", "r", ":">>

ClassTag == <<"c", "l", ":">>

\* C18: kind_map returns a tag for every integer code: the Variable tag for
\* 7, 8, 13 and 14, the Function tag for 6, 9 and 12, the Class tag for 5, and
\* '??:' for every code outside 1..26.
C18_KindMapTotal ==
    stage = "mapped" =>
        /\ prefix # <<>>
        /\ symbol_kind \in {7, 8, 13, 14} => prefix = VariableTag
        /\ symbol_kind \in {6, 9, 12} => prefix = FnTag
        /\ symbol_kind = 5 => prefix = ClassTag
        /\ symbol_kind \notin 1..26 => prefix = UnknownTag

\* kind_map was called with 999
C18_Witness ==
    /\ stage = "mapped"
    /\ symbol_kind = 999
    /\ prefix = UnknownTag

(***************************************************************************)
(* The tree: build_filesystem_tree on a directory on disk, and             *)
(* attach_symbols_recursive on the tree it returns.                        *)
(***************************************************************************)
\* the characters of names, in the order of their code points
CodePoints ==
    <<".", "/", "0", "1", "2", "3", "4", "5", "6", "7", "8", "9", "A", "B", "C", "D",
      "E", "F", "G", "H", "I", "J", "K", "L", "M", "N", "O", "P", "Q", "R", "S", "T",
      "U", "V", "W", "X", "Y", "Z", "a", "b", "c", "d", "e", "f", "g", "h", "i", "j",
      "k", "l", "m", "n", "o", "p", "q", "r", "s", "t", "u", "v", "w", "x", "y", "z">>

Ord(c) == CHOOSE i \in 1..Len(CodePoints) : CodePoints[i] = c

\* a < b for two str values
RECURSIVE StrLess(_, _)
StrLess(a, b) ==
    IF a = <<>> THEN b # <<>>
    ELSE IF b = <<>> THEN FALSE
    ELSE IF Head(a) = Head(b) THEN StrLess(Tail(a), Tail(b))
    ELSE Ord(Head(a)) < Ord(Head(b))

\* the sorted list with one more entry in its place, after its equals
RECURSIVE Insert(_, _)
Insert(sorted, e) ==
    IF sorted = <<>> THEN <<e>>
    ELSE IF StrLess(e.name, Head(sorted).name) THEN <<e>> \o sorted
    ELSE <<Head(sorted)>> \o Insert(Tail(sorted), e)

\* the entries in the order os.scandir gives them
Unsorted(entries) == entries

\* sorted(entries, key=lambda e: e.name)
RECURSIVE SortedByName(_)
SortedByName(entries) ==
    IF entries = <<>> THEN <<>>
    ELSE Insert(SortedByName(SubSeq(entries, 1, Len(entries) - 1)), entries[Len(entries)])

\* TreeNode(name, path, node_type, symbol_kind=...), without the extras
TreeNode(name, path, node_type, kind) ==
    [name |-> name, path |-> path, node_type |-> node_type, symbol_kind |-> kind,
     children |-> <<>>]

\* an exception that leaves build_filesystem_tree
RaisedNode ==
    [name |-> <<>>, path |-> <<>>, node_type |-> "raised", symbol_kind |-> <<>>,
     children |-> <<>>]

\* os.path.join(directory, name)
JoinPath(dir, name) == dir \o <<"/">> \o name

\* is_ignored without the test of hidden names
IsIgnoredBySpecOnly(spec, name, also_ignore_hidden) ==
    IF ~spec.key THEN FALSE
    ELSE name \in spec.val

\* is_ignored(spec, root_dir, full_path, also_ignore_hidden): a spec is the
\* set of the names its patterns match, or None
is_ignored(spec, name, also_ignore_hidden) ==
    IF also_ignore_hidden /\ StartsWith(name, <<".">>) THEN TRUE
    ELSE IF ~spec.key THEN FALSE
    ELSE name \in spec.val

\* the children build_filesystem_tree adds for the nodes built from the entries
RECURSIVE AddChildren(_, _)
AddChildren(root_node, nodes) ==
    IF nodes = <<>> THEN root_node
    ELSE IF Head(nodes).node_type = "raised" THEN RaisedNode
    ELSE IF Head(nodes).node_type = "none" THEN AddChildren(root_node, Tail(nodes))
    ELSE AddChildren([root_node EXCEPT !.children = Append(@, Head(nodes))], Tail(nodes))

\* build_filesystem_tree(start_path, ...) for the entry e found at path:
\* os.stat raises FileNotFoundError for a missing entry and PermissionError
\* for one whose directory cannot be searched; os.scandir raises
\* PermissionError for a directory that cannot be listed
RECURSIVE build_filesystem_tree(_, _, _, _)
build_filesystem_tree(e, path, spec, ignore_hidden) ==
    IF is_ignored(spec, e.name, ignore_hidden) THEN NoneNode
    ELSE IF e.type = "missing" THEN NoneNode
    ELSE IF e.type = "denied" THEN RaisedNode
    ELSE LET root_node == TreeNode(e.name, path, e.type, <<>>)
             entries == SortedByName(e.entries)
         IN  IF e.type = "dir" /\ e.listable
             THEN AddChildren(root_node,
                    [i \in 1..Len(entries) |->
                        build_filesystem_tree(entries[i], JoinPath(path, entries[i].name),
                                              spec, ignore_hidden)])
             ELSE root_node

\* os.path.splitext(path)[1]: from the last dot of the base name, unless the
\* name has no dot after its leading dots
SplitExt(name) ==
    LET dots == {i \in 1..Len(name) : name[i] = "."}
        lead == {i \in 1..Len(name) : \A j \in 1..i : name[j] = "."}
        last == CHOOSE i \in dots : \A j \in dots : j <= i
    IN  IF dots \subseteq lead THEN <<>> ELSE SubSeq(name, last, Len(name))

\* ALLOWED_EXTENSIONS = [".py"]
ALLOWED_EXTENSIONS == {<<".", "p", "y">>}

\* every file that is on disk is queried, whatever its extension
EligibleAnyExtension(fs_node, on_disk) ==
    /\ fs_node.node_type = "file"
    /\ on_disk

\* stree.py 384-389: the file node is queried
Eligible(fs_node, on_disk) ==
    /\ fs_node.node_type = "file"
    /\ Lower(SplitExt(fs_node.name)) \in ALLOWED_EXTENSIONS
    /\ on_disk

\* symbols attached without their own children
AttachChildrenFlat(parent_node, symbol_children) ==
    [parent_node EXCEPT !.children = @ \o
        [i \in 1..Len(symbol_children) |->
            TreeNode(symbol_children[i].name, parent_node.path, "symbol",
                     symbol_children[i].kind)]]

\* attach_symbol_children(parent_node, symbol_children): the parent afterwards
RECURSIVE attach_symbol_children(_, _)
attach_symbol_children(parent_node, symbol_children) ==
    [parent_node EXCEPT !.children = @ \o
        [i \in 1..Len(symbol_children) |->
            attach_symbol_children(
                TreeNode(symbol_children[i].name, parent_node.path, "symbol",
                         symbol_children[i].kind),
                symbol_children[i].children)]]

\* symbols attached as nodes of the kind of their file
AttachSymbolsAsFiles(fs_node, list) ==
    [fs_node EXCEPT !.children = @ \o
        [i \in 1..Len(list) |->
            attach_symbol_children(
                TreeNode(list[i].name, fs_node.path, fs_node.node_type, list[i].kind),
                list[i].children)]]

\* symbols attached, and the tag of the first one given to the file node
AttachSymbolsTagging(fs_node, list) ==
    [fs_node EXCEPT
        !.symbol_kind = IF list = <<>> THEN @ ELSE list[1].kind,
        !.children = @ \o
            [i \in 1..Len(list) |->
                attach_symbol_children(
                    TreeNode(list[i].name, fs_node.path, "symbol", list[i].kind),
                    list[i].children)]]

\* stree.py 391-399: the file node after the symbols were attached
AttachSymbols(fs_node, list) ==
    [fs_node EXCEPT !.children = @ \o
        [i \in 1..Len(list) |->
            attach_symbol_children(
                TreeNode(list[i].name, fs_node.path, "symbol", list[i].kind),
                list[i].children)]]

\* the node at a position: the indexes of the children to go through
RECURSIVE NodeAt(_, _)
NodeAt(node, pos) ==
    IF pos = <<>> THEN node ELSE NodeAt(node.children[Head(pos)], Tail(pos))

\* the tree with the node at a position replaced
RECURSIVE ReplaceAt(_, _, _)
ReplaceAt(node, pos, new) ==
    IF pos = <<>> THEN new
    ELSE [node EXCEPT !.children[Head(pos)] = ReplaceAt(@, Tail(pos), new)]

\* the positions of the File nodes in the order attach_symbols_recursive
\* reaches them; i is the next child of node to recurse into
RECURSIVE FilePositions(_, _)
FilePositions(node, i) ==
    IF node.node_type = "file" THEN <<<<>>>>
    ELSE IF node.node_type # "dir" \/ i > Len(node.children) THEN <<>>
    ELSE LET below == FilePositions(node.children[i], 1)
         IN  [k \in 1..Len(below) |-> <<i>> \o below[k]] \o FilePositions(node, i + 1)

(***************************************************************************)
(* build_filesystem_tree and attach_symbols_recursive on the directories   *)
(* a disk may hold, assembled one entry at a time.                         *)
(***************************************************************************)
MaxEntries == 3

MaxFsDepth == 2

RootName == <<"r">>

\* the names of the directories below the root: d and .e
DirNames == {<<"d">>, <<".", "e">>}

\* the names of the other entries: a.py, b.txt and .c.py
FileNames ==
    {<<"a", ".", "p", "y">>, <<"b", ".", "t", "x", "t">>, <<".", "c", ".", "p", "y">>}

EntryNames(kind) == IF kind.type = "dir" THEN DirNames ELSE FileNames

\* what an entry is: a file, a directory that can or cannot be listed, a name
\* whose stat finds nothing, a name whose stat is not permitted
EntryKinds ==
    {[type |-> "file", listable |-> FALSE], [type |-> "dir", listable |-> TRUE],
     [type |-> "dir", listable |-> FALSE], [type |-> "missing", listable |-> FALSE],
     [type |-> "denied", listable |-> FALSE]}

Entry(name, kind) ==
    [name |-> name, type |-> kind.type, listable |-> kind.listable, entries |-> <<>>]

\* the arguments gitignore_spec and ignore_hidden: the defaults, hidden names
\* only, and a spec whose patterns match one name
IgnoreConfigs ==
    {[spec |-> [key |-> FALSE, val |-> {}], ignore_hidden |-> FALSE],
     [spec |-> [key |-> FALSE, val |-> {}], ignore_hidden |-> TRUE],
     [spec |-> [key |-> TRUE, val |-> {<<"b", ".", "t", "x", "t">>}], ignore_hidden |-> TRUE]}

RECURSIVE CountEntries(_)
CountEntries(e) ==
    IF e.entries = <<>> THEN 0
    ELSE 1 + CountEntries(e.entries[Len(e.entries)])
           + CountEntries([e EXCEPT !.entries = SubSeq(@, 1, Len(@) - 1)])

\* the directory d levels below e, along the last entries, can take the name
RECURSIVE CanAddEntry(_, _, _)
CanAddEntry(e, d, name) ==
    /\ e.type = "dir"
    /\ IF d = 1 THEN \A i \in 1..Len(e.entries) : e.entries[i].name # name
       ELSE e.entries # <<>> /\ CanAddEntry(e.entries[Len(e.entries)], d - 1, name)

RECURSIVE AddEntry(_, _, _)
AddEntry(e, d, new) ==
    IF d = 1 THEN [e EXCEPT !.entries = Append(@, new)]
    ELSE [e EXCEPT !.entries[Len(e.entries)] = AddEntry(@, d - 1, new)]

\* the result lists a server answers a documentSymbol call with: none, a
\* flat one, a nested one of three levels
ResultLists ==
    {<<>>,
     <<Item(1, 13, Absent, FALSE), Item(2, 6, Present(<<"(", "x", ")">>), FALSE)>>,
     AddAt(AddAt(AddAt(AddAt(<<>>, 0, Item(1, 5, Absent, TRUE)),
                       1, Item(2, 6, Present(<<"(", "x", ")">>), TRUE)),
                 2, Item(3, 13, Absent, FALSE)),
           0, Item(4, 12, Absent, TRUE))}

\* something appears on disk: the root, or an entry in a directory below it
FsAdd ==
    /\ stage \in {"idle", "disk"}
    /\ \/ /\ fs.root.type = "missing"
          /\ \E kind \in EntryKinds \ {[type |-> "missing", listable |-> FALSE]} :
                fs' = [fs EXCEPT !.root = Entry(RootName, kind)]
       \/ /\ CountEntries(fs.root) < MaxEntries
          /\ \E d \in 1..MaxFsDepth, kind \in EntryKinds :
             \E name \in EntryNames(kind) :
                /\ CanAddEntry(fs.root, d, name)
                /\ fs' = [fs EXCEPT !.root = AddEntry(@, d, Entry(name, kind))]
    /\ stage' = "disk"
    /\ UNCHANGED <<prog, frameVars, pipeVars, raw, doc_syms, syms, symbol_kind, prefix,
                   fs_root, walk, queried>>

\* fs_root = build_filesystem_tree(start_abs, ...)
BuildTree ==
    /\ stage \in {"idle", "disk"}
    /\ \E c \in IgnoreConfigs :
        /\ fs' = [fs EXCEPT !.spec = c.spec, !.ignore_hidden = c.ignore_hidden]
        /\ fs_root' = build_filesystem_tree(fs.root, <<"/">> \o fs.root.name, c.spec,
                                            c.ignore_hidden)
    /\ walk' = FilePositions(fs_root', 1)
    /\ stage' = IF fs_root'.node_type = "none" THEN "absent"
                ELSE IF fs_root'.node_type = "raised" THEN "raised"
                ELSE IF walk' = <<>> THEN "attached"
                ELSE "built"
    /\ UNCHANGED <<prog, frameVars, pipeVars, raw, doc_syms, syms, symbol_kind, prefix,
                   queried>>

\* attach_symbols_recursive reaches the next File node: if it is eligible
\* and still a file on disk it is queried and what the query returns is
\* attached; on_disk is what os.path.isfile answers when it is asked
AttachFile ==
    /\ stage = "built"
    /\ LET pos == Head(walk)
           fs_node == NodeAt(fs_root, pos)
       IN  \E on_disk \in BOOLEAN, list \in ResultLists :
            IF Eligible(fs_node, on_disk)
            THEN /\ doc_syms' = list
                 /\ syms' = SymbolsOf(list)
                 /\ fs_root' = ReplaceAt(fs_root, pos, AttachSymbols(fs_node, syms'))
                 /\ queried' = Append(queried, [pos |-> pos, syms |-> syms'])
                 /\ UNCHANGED fs
            ELSE /\ fs' = IF Eligible(fs_node, TRUE)
                          THEN [fs EXCEPT !.not_files = @ \cup {fs_node.path}]
                          ELSE fs
                 /\ UNCHANGED <<doc_syms, syms, fs_root, queried>>
    /\ walk' = Tail(walk)
    /\ stage' = IF walk' = <<>> THEN "attached" ELSE "built"
    /\ UNCHANGED <<prog, frameVars, pipeVars, raw, symbol_kind, prefix>>

\* print_merged_tree(fs_root): the nodes are read, none is assigned to
RenderTree ==
    /\ stage = "attached"
    /\ stage' = "printed"
    /\ UNCHANGED <<prog, frameVars, pipeVars, raw, doc_syms, syms, symbol_kind, prefix, fs,
                   fs_root, walk, queried>>

NextTree ==
    \/ FsAdd
    \/ BuildTree
    \/ AttachFile
    \/ RenderTree

SpecTree == InitData /\ [][NextTree]_vars

\* the nodes are Symbol nodes of the file at path, with the names, the tags,
\* the nesting and the order of the forest
RECURSIVE SameForest(_, _, _)
SameForest(nodes, forest, path) ==
    /\ Len(nodes) = Len(forest)
    /\ \A i \in 1..Len(forest) :
        /\ nodes[i].node_type = "symbol"
        /\ nodes[i].name = forest[i].name
        /\ nodes[i].symbol_kind = forest[i].kind
        /\ nodes[i].path = path
        /\ SameForest(nodes[i].children, forest[i].children, path)

\* C19: for every file queried, the nodes below its File node have the names,
\* tags, nesting and order of the SymbolNode forest returned for it, and each
\* has the path of the File node.
C19_TreeMerge ==
    \A q \in DOMAIN queried :
        LET fs_node == NodeAt(fs_root, queried[q].pos)
        IN  /\ fs_node.node_type = "file"
            /\ SameForest(fs_node.children, queried[q].syms, fs_node.path)

\* two files were queried, the second one in a directory below the root, and
\* a forest of three levels hangs below it
C19_Witness ==
    /\ stage = "attached"
    /\ Len(queried) = 2
    /\ Len(queried[2].pos) = 2
    /\ Len(queried[2].syms) = 2
    /\ queried[2].syms[1].children # <<>>
    /\ queried[2].syms[1].children[1].children # <<>>
    /\ NodeAt(fs_root, queried[2].pos \o <<1, 1, 1>>).name = <<"s", "3">>
    /\ NodeAt(fs_root, queried[2].pos \o <<1, 1, 1>>).path =
            <<"/", "r", "/", "d", "/", "a", ".", "p", "y">>

\* the kinds of the children a node of a kind may have
RECURSIVE WellKinded(_)
WellKinded(node) ==
    /\ \A i \in 1..Len(node.children) :
        /\ node.node_type = "symbol" => node.children[i].node_type = "symbol"
        /\ node.node_type = "dir" => node.children[i].node_type \in {"dir", "file"}
        /\ node.node_type = "file" => node.children[i].node_type = "symbol"
        /\ WellKinded(node.children[i])

\* C20: in the tree built and in the tree with symbols attached, a Symbol
\* node has Symbol children only, a Directory node has Directory and File
\* children only, and a File node has no children before attach_symbols_recursive
\* reaches it and Symbol children only afterwards.
C20_TreeKinds ==
    stage \in {"built", "attached"} =>
        /\ fs_root.node_type \in {"dir", "file"}
        /\ WellKinded(fs_root)
        /\ \A k \in DOMAIN walk : NodeAt(fs_root, walk[k]).children = <<>>

\* a flat list was attached to a file in a directory while another file is
\* still to be reached
C20_Witness ==
    /\ stage = "built"
    /\ walk # <<>>
    /\ Len(queried) = 1
    /\ Len(queried[1].pos) = 2
    /\ Len(NodeAt(fs_root, queried[1].pos).children) = 2
    /\ NodeAt(fs_root, queried[1].pos \o <<2>>).node_type = "symbol"
    /\ NodeAt(fs_root, <<1>>).node_type = "dir"

\* the positions of the nodes of a tree
RECURSIVE Positions(_)
Positions(node) ==
    {<<>>} \cup UNION {{<<i>> \o p : p \in Positions(node.children[i])} :
                        i \in DOMAIN node.children}

\* the number of documentSymbol calls made for the node at a position
Calls(pos) == Cardinality({q \in DOMAIN queried : queried[q].pos = pos})

\* the node is a File node whose extension is in the allowed set
AllowedFile(node) ==
    node.node_type = "file" /\ Lower(SplitExt(node.name)) \in ALLOWED_EXTENSIONS

NotIgnored(e) ==
    {i \in DOMAIN e.entries : ~is_ignored(fs.spec, e.entries[i].name, fs.ignore_hidden)}

\* the entries of the directory e that are listed, not ignored, and found by
\* os.stat
Reachable(e) ==
    {i \in NotIgnored(e) : e.listable /\ e.entries[i].type # "missing"}

\* at every directory level of the tree built from e the children are in
\* ascending order of name and as many as the entries counted
RECURSIVE DirLevels(_, _, _)
DirLevels(node, e, stat_counts) ==
    node.node_type = "dir" =>
        /\ \A i \in 1..(Len(node.children) - 1) :
                StrLess(node.children[i].name, node.children[i + 1].name)
        /\ Len(node.children) =
                Cardinality(IF stat_counts THEN Reachable(e) ELSE NotIgnored(e))
        /\ \A i \in DOMAIN node.children :
                \E j \in DOMAIN e.entries :
                    /\ e.entries[j].name = node.children[i].name
                    /\ DirLevels(node.children[i], e.entries[j], stat_counts)

\* C22 as stated: at every directory level of a tree that
\* build_filesystem_tree returned the children are sorted by name ascending
\* and as many as the entries of the directory that are not ignored.
C22_SortedAndAllNotIgnored ==
    stage \in {"built", "attached"} => DirLevels(fs_root, fs.root, FALSE)

\* C22 amended: at every directory level of a tree that build_filesystem_tree
\* returned the children are sorted by name ascending and as many as the
\* entries of the directory that are not ignored and that os.stat finds; a
\* directory that cannot be listed has no children.
C22_SortedAndCounted ==
    stage \in {"built", "attached"} => DirLevels(fs_root, fs.root, TRUE)

\* a directory of three entries, not in order of name on disk, of which one
\* is not found by os.stat: two children, in order
C22_Witness ==
    /\ stage = "built"
    /\ Len(fs.root.entries) = 3
    /\ Cardinality(NotIgnored(fs.root)) = 3
    /\ Len(fs_root.children) = 2
    /\ fs.root.entries[1].name = fs_root.children[2].name
    /\ fs_root.children[1].node_type = "dir"

\* the name is excluded under the arguments of the build: a pattern of the
\* ignore spec matches it, or it starts with "." and hidden names are ignored
Excluded(name) ==
    \/ fs.spec.key /\ name \in fs.spec.val
    \/ fs.ignore_hidden /\ name # <<>> /\ Head(name) = "."

\* build_filesystem_tree returns None for every excluded entry at or below e
RECURSIVE ExcludedAbsent(_, _)
ExcludedAbsent(e, path) ==
    /\ Excluded(e.name) =>
            build_filesystem_tree(e, path, fs.spec, fs.ignore_hidden) = NoneNode
    /\ \A i \in DOMAIN e.entries :
            ExcludedAbsent(e.entries[i], JoinPath(path, e.entries[i].name))

\* neither the Directory or File node built from e nor a node below it is
\* excluded, and each is built from an entry of the directory above it
RECURSIVE NoneExcluded(_, _)
NoneExcluded(node, e) ==
    node.node_type \in {"dir", "file"} =>
        /\ node.name = e.name
        /\ ~Excluded(node.name)
        /\ \A i \in DOMAIN node.children :
                node.children[i].node_type \in {"dir", "file"} =>
                    \E j \in DOMAIN e.entries :
                        /\ e.entries[j].name = node.children[i].name
                        /\ NoneExcluded(node.children[i], e.entries[j])

\* C23: build_filesystem_tree returns None for every entry on disk that the
\* ignore predicate excludes, and in a tree it returned no node at any depth
\* is excluded or lies below an excluded directory.
C23_IgnoredAbsent ==
    /\ ExcludedAbsent(fs.root, <<"/">> \o fs.root.name)
    /\ stage \in {"built", "attached"} => NoneExcluded(fs_root, fs.root)

\* a tree was built of a directory that holds b.txt, which the spec matches,
\* and the hidden directory .e with an entry in it: the root has no children
C23_Witness ==
    /\ stage = "attached"
    /\ fs.spec.key /\ fs.ignore_hidden
    /\ fs_root.node_type = "dir"
    /\ fs_root.children = <<>>
    /\ Len(fs.root.entries) = 2
    /\ \E i \in DOMAIN fs.root.entries :
            /\ fs.root.entries[i].name = <<".", "e">>
            /\ fs.root.entries[i].listable
            /\ fs.root.entries[i].entries # <<>>
            /\ ~Excluded(fs.root.entries[i].entries[1].name)
    /\ \E i \in DOMAIN fs.root.entries : fs.root.entries[i].name = <<"b", ".", "t", "x", "t">>

\* the entries of the directory e that can be reached: listed, not ignored,
\* and neither missing nor denied to os.stat
Accessible(e) ==
    {i \in NotIgnored(e) : e.listable /\ e.entries[i].type \in {"file", "dir"}}

\* the tree built from e has a node for every accessible entry at every level
RECURSIVE EveryAccessibleEntry(_, _)
EveryAccessibleEntry(node, e) ==
    node.node_type = "dir" =>
        /\ Len(node.children) = Cardinality(Accessible(e))
        /\ \A j \in Accessible(e) :
                \E i \in DOMAIN node.children :
                    /\ node.children[i].name = e.entries[j].name
                    /\ EveryAccessibleEntry(node.children[i], e.entries[j])

\* a path below e, not ignored, that os.stat is not permitted to read
RECURSIVE StatDenied(_)
StatDenied(e) ==
    /\ ~Excluded(e.name)
    /\ \/ e.type = "denied"
       \/ e.type = "dir" /\ e.listable /\ \E i \in DOMAIN e.entries : StatDenied(e.entries[i])

\* C24: build_filesystem_tree never ends with an exception for a path whose
\* stat fails or a directory whose listing is denied: it returns, and the
\* tree it returns has a node for every entry that is not ignored and can be
\* reached, and no children below a directory that cannot be listed.
C24_AccessFailuresNeverAbort ==
    /\ stage # "raised"
    /\ stage \in {"built", "attached"} => EveryAccessibleEntry(fs_root, fs.root)

\* the response to the initialize call of this connection was read
HandshakeDone ==
    \E i, k \in DOMAIN log :
        /\ i < k
        /\ log[i].ev = "write" /\ log[i].what = "initialize"
        /\ log[k] = Event("read", "match", log[i].id)

\* a symbol query, a merge or the rendering has begun
SymbolWorkBegun ==
    \/ \E j \in DOMAIN log : Sent(j, {"textDocument/didOpen"} \cup SymbolMethods)
    \/ \E f \in Files : symbols[f].state # "none"
    \/ rendered

\* C25 as stated: in stree.py the filesystem tree is built only after the
\* process was started and the handshake completed, and after a startup
\* failure no tree has been built.
C25_StartBeforeTree ==
    prog = "stree" =>
        /\ built => (Spawned /\ HandshakeDone)
        /\ StartupFailed => ~built

\* C25 amended: in stree.py the process is started only after the filesystem
\* tree was built, and no symbol query, merge or rendering begins before the
\* handshake completed: a startup failure aborts after the enumeration and
\* before any of them.
C25_TreeBeforeStart ==
    prog = "stree" =>
        /\ Spawned => built
        /\ SymbolWorkBegun => HandshakeDone
        /\ StartupFailed => (built /\ ~SymbolWorkBegun)

\* a tree with files to query was built, the process was started, and the
\* stream ended before the initialize response: main() has returned
C25_Witness ==
    /\ prog = "stree"
    /\ pc = "returned"
    /\ StartupFailed
    /\ built
    /\ Len(todo) = MaxFiles
    /\ proc = "reaped"

(***************************************************************************)
(* The flat shape: the tree lsptest2.py builds from the result of its      *)
(* symbol query, with the grouping by containerName, next to what          *)
(* stree.py makes of the same result.                                      *)
(***************************************************************************)
\* SYMBOL_KIND_MAP of a program: lsptest2.py has the tags of the codes
\* 19..26 without the colon
SymbolKindMapOf(p) ==
    IF p = "stree" THEN SYMBOL_KIND_MAP
    ELSE [code \in DOMAIN SYMBOL_KIND_MAP |->
            CASE code = 19 -> <<"o", "b", "j">>
              [] code = 20 -> <<"k", "e", "y">>
              [] code = 21 -> <<"n", "u", "l", "l">>
              [] code = 22 -> <<"m", "e", "m">>
              [] code = 23 -> <<"s", "t", "r">>
              [] code = 24 -> <<"e", "v", "e", "n", "t">>
              [] code = 25 -> <<"o", "p", "e", "r">>
              [] code = 26 -> <<"t", "y", "p">>
              [] OTHER -> SYMBOL_KIND_MAP[code]]

\* kind_map(symbol_kind) of a program
KindMapOf(p, code) ==
    IF code \in DOMAIN SymbolKindMapOf(p) THEN SymbolKindMapOf(p)[code] ELSE UnknownTag

\* a SymbolInformation item: a class A or a method m, with or without the
\* keys containerName and location
FlatItem(name, container, located) ==
    [name |-> name, kind |-> IF name = <<"A">> THEN 5 ELSE 6, detail |-> Absent,
     children |-> Absent, containerName |-> container, location |-> located]

\* the first child of the parent with the name, 0 when there is none
FindChild(name, parent) ==
    IF \E i \in DOMAIN parent.children : parent.children[i].name = name
    THEN CHOOSE i \in DOMAIN parent.children :
            /\ parent.children[i].name = name
            /\ \A j \in 1..(i - 1) : parent.children[j].name # name
    ELSE 0

\* get_or_create_node(name, parent): the parent afterwards; the node returned
\* is its child FindChild(name, parent)
get_or_create_node(name, parent) ==
    IF FindChild(name, parent) # 0 THEN parent
    ELSE [parent EXCEPT !.children = Append(@, SymbolNode(name, <<"d", ":">>))]

\* add_symbol_to_tree(root, symbol): the root afterwards
add_symbol_to_tree(root, symbol) ==
    [root EXCEPT !.children =
        Append(@, SymbolNode(symbol.name, KindMapOf("lsptest2", symbol.kind)))]

\* add_doc_symbol(parent, sym): the parent afterwards
RECURSIVE add_doc_symbol(_, _)
add_doc_symbol(parent, sym) ==
    LET cs == Get(sym.children, <<>>)
        node == SymbolNode(sym.name, KindMapOf("lsptest2", sym.kind))
        below(i) == add_doc_symbol(SymbolNode(<<>>, <<>>), cs[i]).children[1]
    IN  [parent EXCEPT !.children =
            Append(@, [node EXCEPT !.children = [i \in 1..Len(cs) |-> below(i)]])]

\* lsptest2.py 296-302: the loop over a list of SymbolInformation
RECURSIVE AddSymbolInformation(_, _)
AddSymbolInformation(root, list) ==
    IF list = <<>> THEN root
    ELSE LET sym == Head(list)
             container == Get(sym.containerName, <<>>)
             grown == get_or_create_node(container, root)
             at == IF FindChild(container, root) # 0 THEN FindChild(container, root)
                   ELSE Len(grown.children)
         IN  IF container # <<>>
             THEN AddSymbolInformation(
                    [grown EXCEPT !.children[at] = add_symbol_to_tree(@, sym)], Tail(list))
             ELSE AddSymbolInformation(add_symbol_to_tree(root, sym), Tail(list))

\* lsptest2.py 306-307: the loop over a list of DocumentSymbol
RECURSIVE AddDocumentSymbols(_, _)
AddDocumentSymbols(root, list) ==
    IF list = <<>> THEN root
    ELSE AddDocumentSymbols(add_doc_symbol(root, Head(list)), Tail(list))

\* lsptest2.py 274-307: the tree built from the result of the symbol query,
\* None when the result is empty
BuildSymbolTree(list) ==
    LET root_node == SymbolNode(<<"l", "s", "p", "t", "e", "s", "t", "2", ".", "p", "y">>,
                                <<"f", ":">>)
    IN  IF list = <<>> THEN SymbolNode(<<>>, <<>>)
        ELSE IF list[1].location THEN AddSymbolInformation(root_node, list)
        ELSE AddDocumentSymbols(root_node, list)

\* either program, before it has a result to work on
InitFlat ==
    /\ prog \in Programs
    /\ wire = <<>>
    /\ framed = <<>>
    /\ closed = FALSE
    /\ lastIn = NoFrame
    /\ lastOut = NoOutcome
    /\ PipeIdle
    /\ DataIdle

\* the server puts one more item into the flat result of its response
FlatItemAdd ==
    /\ stage \in {"idle", "items"}
    /\ Len(doc_syms) < MaxItems
    /\ \E name \in {<<"A">>, <<"m">>}, located \in BOOLEAN,
          container \in {Absent, Present(<<>>), Present(<<"A">>)} :
            doc_syms' = Append(doc_syms, FlatItem(name, container, located))
    /\ stage' = "items"
    /\ UNCHANGED <<prog, frameVars, pipeVars, raw, syms, symbol_kind, prefix, fs, fs_root,
                   walk, queried>>

\* the program makes its nodes of the result: stree.py the SymbolNode list of
\* the file, lsptest2.py the children of its root node
FlatBuild ==
    /\ stage \in {"idle", "items"}
    /\ syms' = IF prog = "stree" THEN SymbolsOf(doc_syms)
               ELSE BuildSymbolTree(doc_syms).children
    /\ stage' = "grouped"
    /\ UNCHANGED <<prog, frameVars, pipeVars, raw, doc_syms, symbol_kind, prefix, fs,
                   fs_root, walk, queried>>

NextFlat ==
    \/ FlatItemAdd
    \/ FlatBuild

SpecFlat == InitFlat /\ [][NextFlat]_vars

\* the result is a flat one: every item is a SymbolInformation
FlatResponse == doc_syms # <<>> /\ \A i \in DOMAIN doc_syms : doc_syms[i].location

\* the container name an item carries, empty when it carries none
ContainerOf(item) == Get(item.containerName, <<>>)

\* the node is the placeholder of a container with the name
IsPlaceholder(node, name) == node.name = name /\ node.kind = <<"d", ":">>

\* the node is the one made of the item
NodeOf(node, item) ==
    node.name = item.name /\ node.kind = KindMapOf(prog, item.kind)

\* C26: of a flat response, every item with a container name is a child of a
\* placeholder of that name directly under the root, there is at most one
\* placeholder of a name under the root, and every item without a container
\* name is directly under the root.
C26_ContainerGrouping ==
    (stage = "grouped" /\ FlatResponse) =>
        /\ \A i \in DOMAIN doc_syms :
            IF ContainerOf(doc_syms[i]) # <<>>
            THEN \E k \in DOMAIN syms :
                    /\ IsPlaceholder(syms[k], ContainerOf(doc_syms[i]))
                    /\ \E j \in DOMAIN syms[k].children :
                            NodeOf(syms[k].children[j], doc_syms[i])
            ELSE \E k \in DOMAIN syms : NodeOf(syms[k], doc_syms[i])
        /\ \A k1, k2 \in DOMAIN syms :
            (IsPlaceholder(syms[k1], syms[k2].name) /\ IsPlaceholder(syms[k2], syms[k1].name))
                => k1 = k2

\* the codes of Enum, Interface and String .. TypeParameter
OneToOneCodes == {10, 11} \cup 15..26

\* the codes of the kinds that share tags: File .. Constructor, Function ..
\* Constant
GroupedCodes == 1..9 \cup 12..14

\* C27: the tag kind_map returns for a code among 10, 11 and 15..26 is the
\* tag of no other of these codes and of no code in 1..9 or 12..14.
C27_KindTableOneToOne ==
    (stage = "mapped" /\ symbol_kind \in OneToOneCodes) =>
        \A code \in (OneToOneCodes \cup GroupedCodes) \ {symbol_kind} :
            kind_map(code) # prefix

\* the results without symbols: an empty list, no result, null, not a list
NoSymbolResults == {"empty", "absent", "null", "object"}

\* the query of file f was answered by a message with a result without symbols
AnsweredWithoutSymbols(f) ==
    symbols[f].state = "answered" /\ symbols[f].result \in NoSymbolResults

\* C28: in stree.py a matching response whose result is empty, missing, null
\* or not a list gives the file zero symbols, and the wait that read it ends
\* without an error, with the walk at the next file.
C28_NoSymbolsNoError ==
    \A f \in Files :
        (prog = "stree" /\ AnsweredWithoutSymbols(f)) =>
            /\ symbols[f].shape = "none"
            /\ (cur = f /\ log[Len(log)] = Event("read", "match", symbols[f].req)) =>
                    pc \in {"attach", "render"}

\* the first file was answered with a result that is not a list, and the
\* query of the second file is under way
C28_Witness ==
    /\ prog = "stree"
    /\ symbols[1].state = "answered"
    /\ symbols[1].result = "object"
    /\ cur = 2
    /\ pc = "docsym_wait"

\* every wait so far ended with the matching response or at the end of the
\* stream
ServerAnswersOrEnds ==
    \A i \in DOMAIN log : log[i].ev = "read" => log[i].what \in {"match", "eof"}

\* C29: in stree.py, with a server that for every call sends the matching
\* response or ends its stream, a run in which the process was spawned has
\* reached, when main() ends, the state where the process has been
\* terminated and waited for.
C29_Termination ==
    (prog = "stree" /\ ServerAnswersOrEnds /\ Spawned /\ pc \in {"returned", "raised"}) =>
        proc = "reaped"

\* from one tree to the next the Directory and File nodes are the same, in
\* the same places, and all that is new are Symbol nodes at the end of the
\* children of File nodes
RECURSIVE OnlyAppended(_, _)
OnlyAppended(old, new) ==
    /\ new.name = old.name
    /\ new.path = old.path
    /\ new.node_type = old.node_type
    /\ new.symbol_kind = old.symbol_kind
    /\ CASE old.node_type = "dir" ->
                /\ Len(new.children) = Len(old.children)
                /\ \A i \in DOMAIN old.children :
                        OnlyAppended(old.children[i], new.children[i])
         [] old.node_type = "file" ->
                /\ Len(new.children) >= Len(old.children)
                /\ SubSeq(new.children, 1, Len(old.children)) = old.children
                /\ \A i \in DOMAIN new.children : new.children[i].node_type = "symbol"
         [] OTHER -> new.children = old.children

\* the tree without its Symbol nodes
RECURSIVE Skeleton(_)
Skeleton(node) ==
    [node EXCEPT !.children =
        IF node.node_type = "dir" THEN [i \in DOMAIN node.children |-> Skeleton(node.children[i])]
        ELSE <<>>]

\* a step taken once the tree is built only appends Symbol nodes
AppendingStep ==
    stage \in {"built", "attached", "printed"} => OnlyAppended(fs_root, fs_root')

\* C30: once the tree is built, every step of attach_symbols_recursive and
\* the rendering leave the Directory and File nodes as they are, in their
\* order, and only append Symbol nodes to the children of File nodes; the
\* tree without its Symbol nodes stays the tree build_filesystem_tree made.
C30_AttachOnlyAppends ==
    /\ [][AppendingStep]_vars
    /\ [](stage \in {"built", "attached", "printed"} =>
            Skeleton(fs_root) =
                build_filesystem_tree(fs.root, <<"/">> \o fs.root.name, fs.spec,
                                      fs.ignore_hidden))

\* a tree of a directory, a file in it and a file next to it was rendered
\* with symbols below both files
C30_Witness ==
    /\ stage = "printed"
    /\ Len(queried) = 2
    /\ Len(queried[1].pos) = 2
    /\ Len(queried[2].pos) = 1
    /\ NodeAt(fs_root, queried[1].pos).children # <<>>
    /\ NodeAt(fs_root, queried[2].pos).children # <<>>

====
